---- MODULE Spec2Model ----
(***************************************************************************)
(* mneme: the command execution engine (src/src/store/mod.rs, execute)     *)
(* running against an event store with optimistic concurrency control.     *)
(*                                                                         *)
(* One engine executes one command: it reads the command's stream, folds   *)
(* the events into the command's state, calls handle(), and publishes the  *)
(* produced events under a version precondition, retrying on a version     *)
(* mismatch.  Independent writers append to the same store at any time.    *)
(***************************************************************************)
EXTENDS Integers, Sequences, FiniteSets

(* ------------------------------------------------------------------ *)
(* Bounds of the model                                                *)
(* ------------------------------------------------------------------ *)

\* largest max_retries a configuration of the model carries
MaxRetriesBound == 2
\* length up to which independent writers keep appending to a stream
MaxStreamLen == 3
\* longest pre-seeded stream
MaxSeedLen == 2
\* largest version a command's override_expected_version returns
MaxOverride == 1
\* RetryDelay: the largest base delay, maximum delay and retry count tried
MaxBaseDelay == 3
MaxMaxDelay == 6
MaxRetryCount == 5
\* ExecuteConfig: the largest argument given to a builder
MaxConfigArg == 9
\* the first engine: how many publishes the store may fail, and the failure
\* context count at which a limited command gives up
MaxPublishFailures == 2
MaxContext == 2
\* jitter: how many delays a thread asks for, and the largest retry count
MaxDraws == 3
MaxJitterRetry == 2
\* the longest secret given to SecureString::new
MaxSecretLen == 3
\* EventStoreImpl: the number of envelopes up to which it is published to
MaxStored == 4

(* ------------------------------------------------------------------ *)
(* Values                                                             *)
(* ------------------------------------------------------------------ *)

\* the engines (tasks calling execute); Spec starts the first one only
Procs == {"e1", "e2"}

\* the stream ids that commands carry in a field
StreamIds == {"A", "B"}

\* EventStreamId::new(): Uuid::new_v4(), an id no stream has; the k-th id
\* created during one execute
NewStreamIds == <<"n1", "n2", "n3">>

EventStreamIdNew(k) == NewStreamIds[IF k <= Len(NewStreamIds) THEN k ELSE Len(NewStreamIds)]

AllStreamIds == StreamIds \cup {NewStreamIds[k] : k \in DOMAIN NewStreamIds}

\* Option<T>
None == [some |-> FALSE, v |-> 0]

Some(x) == [some |-> TRUE, v |-> x]

\* An event is BankAccountEvent::Deposited { amount }, written as its amount.
\* Event::event_type
event_type(event) == "AmountDeposited"

\* the events serialized in reverse order
ToEventDataReversed(events) ==
    [i \in 1..Len(events) |->
        [event_type |-> event_type(events[Len(events) + 1 - i]),
         data |-> events[Len(events) + 1 - i]]]

\* publish: events.iter().map(|event| EventData::json(event.event_type(), &event))
ToEventData(events) ==
    [i \in 1..Len(events) |->
        [event_type |-> event_type(events[i]), data |-> events[i]]]

\* A stored record: the type tag and payload of the event, the revision the
\* store assigned to it, and who wrote it (bookkeeping only).
Stored(event_data, revision, writer) ==
    [event_type |-> event_data.event_type, data |-> event_data.data,
     revision |-> revision, writer |-> writer]

\* the events of a sequence of records, in order
EventsOf(recs) == [i \in 1..Len(recs) |-> recs[i].data]

(* ------------------------------------------------------------------ *)
(* Aggregate state and command                                        *)
(* ------------------------------------------------------------------ *)

\* BankAccount::default(): balance 0
EmptyState == 0

\* AggregateState::apply: BankAccount { balance: self.balance + amount }
StateApply(state, amount) == state + amount

\* folding a sequence of events from a state, in order
RECURSIVE Fold(_, _)
Fold(state, events) ==
    IF events = <<>> THEN state
    ELSE Fold(StateApply(state, Head(events)), Tail(events))

\* Command::apply, default: set_state(get_state().apply(event))
CommandApply(state, amount) == StateApply(state, amount)

\* Command::mark_retry, default: self.clone() -- the state is carried over
MarkRetry(state) == state

CommandKinds ==
    {"Noop", "Reject", "EventProducing", "Stateful", "CreateOnce", "CreateIfAbsent"}

\* The commands the crate itself defines and documents, whose
\* event_stream_id() is EventStreamId::new():
\*   Unit     impl Command for ()
\*   Deposit  the Deposit command of the Command documentation
DocumentedKinds == {"Unit", "Deposit"}

\* Display of the command's error
to_string(err) == IF err = "no" THEN "Command failed: no" ELSE "Command failed: exists"

HandleOk(events) == [ok |-> TRUE, events |-> events, err |-> ""]

HandleErr(err) == [ok |-> FALSE, events |-> <<>>, err |-> err]

\* Command::handle: a pure decision on the command's kind and folded state.
\*   Noop            Ok(vec![])
\*   Reject          Err("no")
\*   EventProducing  Ok(vec![One, Two]), whatever the state
\*   Stateful        one event computed from the state
\*   CreateOnce      Ok(one event) on the empty state, Err("exists") otherwise
\*   CreateIfAbsent  Ok(one event) on the empty state, Ok(vec![]) otherwise
Handle(kind, state) ==
    CASE kind = "Noop" -> HandleOk(<<>>)
      [] kind = "Reject" -> HandleErr("no")
      [] kind = "EventProducing" -> HandleOk(<<1, 2>>)
      [] kind = "Stateful" -> HandleOk(<<state + 1>>)
      [] kind = "CreateOnce" ->
            IF state = EmptyState THEN HandleOk(<<1>>) ELSE HandleErr("exists")
      [] kind = "CreateIfAbsent" ->
            IF state = EmptyState THEN HandleOk(<<1>>) ELSE HandleOk(<<>>)
      [] kind = "Unit" -> HandleOk(<<>>)
      [] kind = "Deposit" -> HandleOk(<<1>>)

(* ------------------------------------------------------------------ *)
(* State                                                              *)
(* ------------------------------------------------------------------ *)

VARIABLES
    streams,          \* the store: stream id -> sequence of stored records
    pc,               \* per engine: where execute stands
    cmd,              \* per engine: the command's fixed fields
    max_retries,      \* per engine: config.max_retries()
    retries,          \* per engine: the retry counter
    state,            \* per engine: the state the command carries
    expected_version, \* per engine: Option<version> of the last event read
    event_stream,     \* per engine: what the returned EventStream still yields
    domain_events,    \* per engine: the events handle() returned
    append_options,   \* per engine: the precondition passed to publish
    result,           \* per engine: what execute returned
    calls,            \* per engine: how often each operation was invoked
    seen,             \* per engine: the (event, version) pairs drawn in the
                      \*   current attempt
    decided,          \* per engine: the state handle() last observed, and
                      \*   the events that had been drawn in that attempt
    before,           \* per engine: the stream just before its successful append
    store_error,      \* per engine: the last error other than a version
                      \*   mismatch that the store answered, and to which call
    ids,              \* per engine: the ids event_stream_id() returned during
                      \*   this execute, in order, and what each was used for
    backoff,          \* per engine: the sleep in progress: the retry count
                      \*   given to calculate_delay and the duration returned
    delay,            \* a RetryDelay, a retry count, and what
                      \*   calculate_delay answered for them
    config,           \* an ExecuteConfig under construction, and the last
                      \*   builder call made on it
    append,           \* the last append a stream writer made on the store:
                      \*   its stream, precondition, batch, and the answer
    settings,         \* a ConnectionSettingsBuilder, the values given to it,
                      \*   what build returned and the Debug text taken
    legacy,           \* the execute of src/src/lib.rs: its command, its
                      \*   store, its local state and its result
    jitter,           \* per thread: its THREAD_RNG, the retry counts it gave
                      \*   to calculate_delay and the delays it obtained
    secure            \* a SecureString and its clone: the bytes each buffer
                      \*   holds, also once the value was dropped

\* the variables of execute
run_vars == <<pc, cmd, max_retries, retries, state, expected_version,
              event_stream, domain_events, append_options, result, calls, seen,
              decided, before, store_error, ids, backoff>>

\* the variables of execute and of the store it runs against
engine_vars == <<streams, run_vars>>

\* the variables of the components that execute's steps leave alone
aux_vars == <<delay, config, append, settings, legacy, jitter, secure>>

\* all variables but the one named
but_delay == <<engine_vars, config, append, settings, legacy, jitter, secure>>

but_config == <<engine_vars, delay, append, settings, legacy, jitter, secure>>

but_append == <<run_vars, delay, config, settings, legacy, jitter, secure>>

but_settings == <<engine_vars, delay, config, append, legacy, jitter, secure>>

but_legacy == <<engine_vars, delay, config, append, settings, jitter, secure>>

but_jitter == <<engine_vars, delay, config, append, settings, legacy, secure>>

but_secure == <<engine_vars, delay, config, append, settings, legacy, jitter>>

vars == <<engine_vars, aux_vars>>

(* ------------------------------------------------------------------ *)
(* Errors and results                                                 *)
(* ------------------------------------------------------------------ *)

\* What execute returned.  kind "Pending" while execute runs, "Ok" for Ok(()),
\* otherwise the variant of Error; the fields a variant lacks are blank.
Res(kind, stream, n, message, attempt, source) ==
    [kind |-> kind, stream |-> stream, max |-> n, message |-> message,
     attempt |-> attempt, source |-> source]

Pending == Res("Pending", "", 0, "", 0, "")

OkUnit == Res("Ok", "", 0, "", 0, "")

\* Error::MaxRetriesExceeded { stream, max_retries }
MaxRetriesExceeded(stream, n) == Res("MaxRetriesExceeded", stream, n, "", 0, "")

\* CommandFailed with attempt: retries, a zero-based attempt index
CommandFailedZeroBased(err, r, n) ==
    Res("CommandFailed", "", n, to_string(err), r, err)

\* Error::CommandFailed { message, attempt, max_attempts, source }
CommandFailed(err, r, n) == Res("CommandFailed", "", n, to_string(err), r + 1, err)

\* Error::EventStoreOther(source)
EventStoreOther(source) == Res("EventStoreOther", "", 0, "", 0, source)

\* Error::EventDeserializationError(source)
EventDeserializationError == Res("EventDeserializationError", "", 0, "", 0, "json")

(* ------------------------------------------------------------------ *)
(* The event store                                                    *)
(* ------------------------------------------------------------------ *)

\* eventstore::ExpectedRevision
AnyRevision == [kind |-> "Any", v |-> 0]

Exact(v) == [kind |-> "Exact", v |-> v]

NoStream == [kind |-> "NoStream", v |-> 0]

\* the records a writer adds for `batch` to a stream that holds `recs`
NewRecords(recs, batch, writer) ==
    [i \in 1..Len(batch) |-> Stored(batch[i], Len(recs) + i - 1, writer)]

\* Exact(v) holding on every stream that has reached version v
RevisionHoldsAtLeast(recs, options) ==
    CASE options.kind = "Any" -> TRUE
      [] options.kind = "NoStream" -> recs = <<>>
      [] options.kind = "Exact" ->
            /\ recs # <<>>
            /\ recs[Len(recs)].revision >= options.v

\* whether the stream `recs` satisfies the append precondition
RevisionHolds(recs, options) ==
    CASE options.kind = "Any" -> TRUE
      [] options.kind = "NoStream" -> recs = <<>>
      [] options.kind = "Exact" ->
            /\ recs # <<>>
            /\ recs[Len(recs)].revision = options.v

\* Error::EventStoreVersionMismatch { stream, expected, actual, .. }
EventStoreVersionMismatch(stream, expected, actual) ==
    [tag |-> "VersionMismatch", stream |-> stream,
     expected |-> expected, actual |-> actual]

\* the version of the last record of a stream, None for a never-written one
TipVersion(recs) == IF recs = <<>> THEN None ELSE Some(recs[Len(recs)].revision)

\* the version a precondition names, if it names one
ExpectedVersion(options) ==
    IF options.kind = "Exact" THEN Some(options.v) ELSE None

AppendedOk == [tag |-> "Ok", stream |-> "", expected |-> None, actual |-> None]

\* What a reachable store answers to an append on stream `id`, holding
\* `recs`, under `options`.
AppendAnswer(recs, id, options) ==
    IF RevisionHolds(recs, options)
    THEN AppendedOk
    ELSE EventStoreVersionMismatch(id, ExpectedVersion(options), TipVersion(recs))

\* no append has been made
NoAppend ==
    [stream |-> "A", options |-> AnyRevision, batch |-> <<>>, recs |-> <<>>,
     answer |-> AppendedOk]

\* the eventstore::Error values, other than ResourceNotFound and a wrong
\* expected version, that a store call may fail with
StoreErrors == {"Grpc", "DeadlineExceeded"}

\* the store has reported no error
NoStoreError == [op |-> "none", source |-> ""]

\* What read_stream may answer for the stream `recs`:
\*   Failed    Err(EventStoreOther(source)), source a transport error
\*   NotFound  Err(EventStoreOther(ResourceNotFound)), a never-written stream
\*   Stream    Ok(EventStream): the records in append order; for a
\*             never-written stream the iterator is either empty or reports
\*             ResourceNotFound on its first draw
ReadAnswers(recs) ==
    {[tag |-> "Failed", items |-> <<>>, missing |-> FALSE, source |-> err]
        : err \in StoreErrors}
    \cup (IF recs = <<>>
          THEN {[tag |-> "NotFound", items |-> <<>>, missing |-> FALSE, source |-> ""],
                [tag |-> "Stream", items |-> <<>>, missing |-> TRUE, source |-> ""],
                [tag |-> "Stream", items |-> <<>>, missing |-> FALSE, source |-> ""]}
          ELSE {[tag |-> "Stream", items |-> recs, missing |-> FALSE, source |-> ""]})

\* What publish may answer for the stream `recs` under `options`: success
\* (the events are appended as one batch), a version mismatch when the
\* precondition fails, or another store error (named by its source); a failed
\* publish stores nothing.
PublishAnswers(recs, options) ==
    (IF RevisionHolds(recs, options) THEN {"Ok"} ELSE {"VersionMismatch"})
    \cup StoreErrors

NoStreamHandle == [items |-> <<>>, missing |-> FALSE]

\* What the underlying eventstore::ReadStream::next may answer
RawDraws(es) ==
    IF es.missing THEN {[tag |-> "Err", source |-> "ResourceNotFound", decodes |-> FALSE]}
    ELSE IF es.items = <<>> THEN {[tag |-> "None", source |-> "", decodes |-> FALSE]}
    ELSE {[tag |-> "Some", source |-> "", decodes |-> TRUE],
          [tag |-> "Some", source |-> "", decodes |-> FALSE],
          [tag |-> "Err", source |-> "Grpc", decodes |-> FALSE]}

\* EventStream::next: the answer of the underlying stream, mapped
EventStreamNext(es, raw) ==
    CASE raw.tag = "Err" ->
            [tag |-> "Err", error |-> EventStoreOther(raw.source),
             event |-> 0, version |-> 0]
      [] raw.tag = "None" ->
            [tag |-> "None", error |-> Pending, event |-> 0, version |-> 0]
      [] raw.tag = "Some" ->
            IF raw.decodes
            THEN [tag |-> "Some", error |-> Pending,
                  event |-> Head(es.items).data,
                  version |-> Head(es.items).revision]
            ELSE [tag |-> "Err", error |-> EventDeserializationError,
                  event |-> 0, version |-> 0]

(* ------------------------------------------------------------------ *)
(* RetryDelay (src/src/delay.rs)                                      *)
(* ------------------------------------------------------------------ *)

\* The width of the machine word the delay arithmetic runs in.  The source
\* computes in u64; the model keeps the arithmetic and narrows the word.
WordBits == 4

WordModulus == 2 ^ WordBits

\* The two builds of the crate: "debug" has overflow checks (an overflowing
\* operation panics), "release" has none (it wraps).
Builds == {"debug", "release"}

Min(a, b) == IF a <= b THEN a ELSE b

\* 2u64.pow(retry_count): whether it overflows, and its wrapped value
PowOverflows(retry_count) == 2 ^ retry_count >= WordModulus

pow(retry_count) == (2 ^ retry_count) % WordModulus

\* self.base_delay_ms * 2u64.pow(retry_count): whether it overflows, and its
\* wrapped value
MulOverflows(base_delay_ms, retry_count) ==
    base_delay_ms * pow(retry_count) >= WordModulus

exp_delay(base_delay_ms, retry_count) ==
    (base_delay_ms * pow(retry_count)) % WordModulus

\* exp_delay.min(self.max_delay_ms)
capped_delay(base_delay_ms, max_delay_ms, retry_count) ==
    Min(exp_delay(base_delay_ms, retry_count), max_delay_ms)

\* What calculate_delay(retry_count) may do: panic where an overflowing
\* operation is checked, else return a value drawn from 0..=capped_delay.
calculate_delay(base_delay_ms, max_delay_ms, retry_count, profile) ==
    IF /\ profile = "debug"
       /\ (PowOverflows(retry_count) \/ MulOverflows(base_delay_ms, retry_count))
    THEN {[tag |-> "panic", ms |-> 0]}
    ELSE {[tag |-> "returned", ms |-> jittered_delay] :
            jittered_delay \in 0..capped_delay(base_delay_ms, max_delay_ms, retry_count)}

\* no call of calculate_delay has been made
NoDelay == [tag |-> "none", ms |-> 0]

DelayAtRest ==
    [base_delay_ms |-> 1, max_delay_ms |-> 1, retry_count |-> 0,
     build |-> "release", outcome |-> NoDelay]

(* ------------------------------------------------------------------ *)
(* ExecuteConfig                                                      *)
(* ------------------------------------------------------------------ *)

\* Error::InvalidConfig { message, parameter }
InvalidConfig(message, parameter) ==
    [kind |-> "InvalidConfig", message |-> message, parameter |-> parameter]

DefaultMaxRetries == 5

DefaultBaseDelayMs == 100

DefaultMaxDelayMs == 30000

\* a default with the 30 second cap written in seconds
RetryDelayDefaultInSeconds ==
    [base_delay_ms |-> DefaultBaseDelayMs, max_delay_ms |-> 30]

\* RetryDelay::default()
RetryDelayDefault ==
    [base_delay_ms |-> DefaultBaseDelayMs, max_delay_ms |-> DefaultMaxDelayMs]

\* ExecuteConfig::default()
ExecuteConfigDefault ==
    [max_retries |-> DefaultMaxRetries, retry_delay |-> RetryDelayDefault]

BuiltOk(value) == [ok |-> TRUE, value |-> value, err |-> InvalidConfig("", "")]

BuiltErr(value, err) == [ok |-> FALSE, value |-> value, err |-> err]

\* self.with_max_retries(max_retries)
with_max_retries(self, n) ==
    IF n = 0
    THEN BuiltErr(self, InvalidConfig("max_retries cannot be 0", "max_retries"))
    ELSE BuiltOk([self EXCEPT !.max_retries = n])

\* self.with_base_delay(base_delay_ms)
with_base_delay(self, ms) ==
    IF ms = 0
    THEN BuiltErr(self, InvalidConfig("base_retry_delay_ms cannot be 0",
                                      "base_retry_delay_ms"))
    ELSE BuiltOk([self EXCEPT !.retry_delay.base_delay_ms = ms])

\* no builder has been called
NoBuilderCall == [op |-> "default", arg |-> 0, result |-> BuiltOk(ExecuteConfigDefault)]

\* held: whether the caller holds an ExecuteConfig (a failed builder call
\* consumes the value and returns only the error)
ConfigAtRest == [held |-> TRUE, value |-> ExecuteConfigDefault, call |-> NoBuilderCall]

(* ------------------------------------------------------------------ *)
(* ConnectionSettings (src/src/kurrent_adapter/settings.rs)           *)
(* ------------------------------------------------------------------ *)

DefaultPort == 2113

\* the values given to the builder's setters
Hosts == {"localhost", "db.example"}

Ports == {DefaultPort, DefaultPort + 1}

Usernames == {"admin", "ops"}

Passwords == {"", "changeit", "s3cret"}

\* ConnectionSettingsBuilder::default()
ConnectionSettingsBuilderDefault ==
    [host |-> None, port |-> None, tls |-> None, username |-> None,
     password |-> None]

\* a setter that keeps a value given earlier
hostKeepingFirst(self, value) ==
    IF self.host.some THEN self ELSE [self EXCEPT !.host = Some(value)]

\* ConnectionSettingsBuilder::host and the other setters
host(self, value) == [self EXCEPT !.host = Some(value)]

port(self, value) == [self EXCEPT !.port = Some(value)]

tls(self, enable) == [self EXCEPT !.tls = Some(enable)]

username(self, value) == [self EXCEPT !.username = Some(value)]

\* SecureString::new(password.into())
password(self, value) == [self EXCEPT !.password = Some(value)]

\* Option::unwrap_or
unwrap_or(option, default) == IF option.some THEN option.v ELSE default

NoSettings ==
    [host |-> "", port |-> 0, tls |-> FALSE, username |-> "", password |-> ""]

NotBuilt == [tag |-> "none", value |-> NoSettings, err |-> InvalidConfig("", "")]

\* ConnectionSettingsBuilder::build
build(self) ==
    IF ~self.password.some
    THEN [tag |-> "Err", value |-> NoSettings,
          err |-> InvalidConfig("password is required", "password")]
    ELSE [tag |-> "Ok",
          value |-> [host |-> unwrap_or(self.host, "localhost"),
                     port |-> unwrap_or(self.port, DefaultPort),
                     tls |-> unwrap_or(self.tls, FALSE),
                     username |-> unwrap_or(self.username, "admin"),
                     password |-> self.password.v],
          err |-> InvalidConfig("", "")]

\* a Debug implementation that prints every field
fmtDerived(self) ==
    <<"ConnectionSettings", <<"host", self.host>>, <<"port", self.port>>,
      <<"tls", self.tls>>, <<"username", self.username>>,
      <<"password", self.password>>>>

\* impl fmt::Debug for ConnectionSettings: the struct name and the fields in
\* the order debug_struct prints them
fmt(self) ==
    <<"ConnectionSettings", <<"host", self.host>>, <<"port", self.port>>,
      <<"tls", self.tls>>, <<"username", self.username>>,
      <<"password", "<redacted>">>>>

NoDebug == [taken |-> FALSE, text |-> <<>>, other |-> NoSettings, other_text |-> <<>>]

SettingsAtRest ==
    [builder |-> ConnectionSettingsBuilderDefault,
     given |-> ConnectionSettingsBuilderDefault,
     built |-> NotBuilt, debug |-> NoDebug]

(* ------------------------------------------------------------------ *)
(* SecureString (src/src/kurrent_adapter/settings.rs)                 *)
(* ------------------------------------------------------------------ *)

\* the non-zero bytes a secret is made of
SecretBytes == 1..3

Secrets == UNION {[1..n -> SecretBytes] : n \in 0..MaxSecretLen}

\* A SecureString: the bytes in the buffer of `inner`, the flag, and whether
\* the value was dropped; `vec` is the buffer drop() worked on.
\* SecureString::new(s)
SecureStringNew(s) ==
    [exists |-> TRUE, inner |-> s, should_zero |-> TRUE, dropped |-> FALSE,
     vec |-> <<>>]

NoSecureString ==
    [exists |-> FALSE, inner |-> <<>>, should_zero |-> FALSE, dropped |-> FALSE,
     vec |-> <<>>]

\* impl Clone for SecureString
SecureStringClone(self) ==
    [exists |-> TRUE, inner |-> self.inner, should_zero |-> FALSE,
     dropped |-> FALSE, vec |-> <<>>]

\* vec.fill(0)
fill(vec, value) == [i \in DOMAIN vec |-> value]

\* impl Drop for SecureString: if should_zero, as_bytes().to_vec() copies the
\* bytes into a new buffer and that buffer is filled with zeroes; then the
\* buffer of `inner` is released as it is.
SecureStringDrop(self) ==
    IF self.should_zero
    THEN [self EXCEPT !.dropped = TRUE, !.vec = fill(self.inner, 0)]
    ELSE [self EXCEPT !.dropped = TRUE]

SecureAtRest == [original |-> NoSecureString, clone |-> NoSecureString]

(* ------------------------------------------------------------------ *)
(* The jitter generator (src/src/delay.rs)                            *)
(* ------------------------------------------------------------------ *)

Threads == {"t1", "t2"}

\* the seed of SmallRng::seed_from_u64(0)
ThreadRngSeed == 0

\* SmallRng::seed_from_u64(seed): a generator is its seed and the number of
\* values drawn from it
seed_from_u64(seed) == [seed |-> seed, drawn |-> 0]

\* thread_local! { static THREAD_RNG: ... = RefCell::new(SmallRng::seed_from_u64(0)) }:
\* what the generator of every thread starts as
THREAD_RNG == seed_from_u64(ThreadRngSeed)

\* The next output of a generator: a fixed function of its seed and of how
\* many values were drawn before.
next_u64(rng) == (7 * rng.seed + 5 * rng.drawn + 3) % WordModulus

\* rng.borrow_mut().gen_range(0..=capped_delay): the value, and the
\* generator advanced
gen_range(rng, capped) ==
    [value |-> next_u64(rng) % (capped + 1),
     rng |-> [rng EXCEPT !.drawn = @ + 1]]

\* the RetryDelay the threads share
JitterRetryDelay == [base_delay_ms |-> 1, max_delay_ms |-> 3]

\* no thread has asked for a delay
JitterAtRest ==
    [t \in Threads |->
        [created |-> FALSE, rng |-> THREAD_RNG, counts |-> <<>>, delays |-> <<>>]]

(* ------------------------------------------------------------------ *)
(* The first engine: execute of src/src/lib.rs                        *)
(* ------------------------------------------------------------------ *)

\* DomainEvent of the engine's tests
FooHappened(id) == [tag |-> "FooHappened", id |-> id, value |-> 0]

BarHappened(id) == [tag |-> "BarHappened", id |-> id, value |-> 0]

BazHappened(id, value) == [tag |-> "BazHappened", id |-> id, value |-> value]

CommandRecovered == [tag |-> "CommandRecovered", id |-> 0, value |-> 0]

\* EventEnvelope { event, stream_id, stream_version }
EventEnvelope(event, stream_version) ==
    [event |-> event, stream_id |-> "thing.123", stream_version |-> stream_version]

\* StorageError, and its conversion C::Error::from into ExecutionError
StorageErrors == {"Other", "VersionMismatch"}

ExecutionErrorFrom(storage_error) ==
    [tag |-> "StorageError", source |-> storage_error]

Rejected == [tag |-> "Rejected", source |-> ""]

NoExecutionError == [tag |-> "", source |-> ""]

\* StatefulCommandState::default() and apply_event
StatefulDefault == 0

apply_event(self, event) ==
    CASE event.tag = "FooHappened" -> event.id
      [] event.tag = "BarHappened" -> event.id
      [] event.tag = "BazHappened" -> event.value
      [] event.tag = "CommandRecovered" -> 0

\* The commands of the first engine: the command types of its tests, each
\* with one of the handle_error policies the trait allows.
\*   Noop, Rejecting (NoopCommand 456), EventProducing, Recovering: Stateless
\*   Stateful: StatefulCommand(123), the only one naming a stream
LegacyKinds == {"Noop", "Rejecting", "EventProducing", "Recovering", "Stateful"}

\*   Default     Ok(None), the trait's default
\*   Recovering  Ok(Some(context)) for a storage error, counting the calls
\*   Limited     as Recovering, but Ok(None) once MaxContext calls were made
\*   Refusing    Err(Rejected)
ErrorPolicies == {"Default", "Recovering", "Limited", "Refusing"}

LegacyCommands == [kind : LegacyKinds, policy : ErrorPolicies]

\* Command::event_stream_id
legacy_event_stream_id(command) ==
    IF command.kind = "Stateful" THEN Some("thing.123") ELSE None

\* Command::handle(state), `current` being the state built
legacy_handle(command, current) ==
    CASE command.kind = "Noop" -> [ok |-> TRUE, events |-> <<>>, err |-> NoExecutionError]
      [] command.kind = "Rejecting" -> [ok |-> FALSE, events |-> <<>>, err |-> Rejected]
      [] command.kind = "EventProducing" ->
            [ok |-> TRUE, events |-> <<FooHappened(123), BarHappened(123)>>,
             err |-> NoExecutionError]
      [] command.kind = "Recovering" ->
            [ok |-> TRUE, events |-> <<CommandRecovered>>, err |-> NoExecutionError]
      [] command.kind = "Stateful" ->
            [ok |-> TRUE, events |-> <<BazHappened(123, current * 2)>>,
             err |-> NoExecutionError]

\* Command::handle_error(&error, failure_context)
handle_error(command, error, failure_context) ==
    LET count == IF failure_context.some THEN failure_context.v + 1 ELSE 1 IN
    CASE command.policy = "Default" ->
            [ok |-> TRUE, context |-> None, err |-> NoExecutionError]
      [] command.policy = "Recovering" ->
            IF error.tag = "StorageError"
            THEN [ok |-> TRUE, context |-> Some(count), err |-> NoExecutionError]
            ELSE [ok |-> FALSE, context |-> None, err |-> error]
      [] command.policy = "Limited" ->
            IF count <= MaxContext
            THEN [ok |-> TRUE, context |-> Some(count), err |-> NoExecutionError]
            ELSE [ok |-> TRUE, context |-> None, err |-> NoExecutionError]
      [] command.policy = "Refusing" ->
            [ok |-> FALSE, context |-> None, err |-> Rejected]

\* build_state: the fold of apply_event over the envelopes, from the default
RECURSIVE fold(_, _)
fold(current, envelopes) ==
    IF envelopes = <<>> THEN current
    ELSE fold(apply_event(current, Head(envelopes).event), Tail(envelopes))

\* ... and the version of the first envelope read
first_version(envelopes) ==
    IF envelopes = <<>> THEN None
    ELSE Some(envelopes[1].stream_version)

\* ... and the version of the last envelope
last_version(envelopes) ==
    IF envelopes = <<>> THEN None
    ELSE Some(envelopes[Len(envelopes)].stream_version)

\* EventStoreImpl::publish: the version given to the first event of a batch
starting_version(len) ==
    CASE len = 0 -> 0
      [] len = 1 -> 0
      [] OTHER -> len

\* EventStoreImpl::publish: the envelopes pushed for a batch
Envelopes(stored, events) ==
    [i \in 1..Len(events) |->
        EventEnvelope(events[i], starting_version(Len(stored)) + (i - 1))]

\* EventStoreImpl::expect_stream_id: a store pre-loaded with `events`
Preloaded(events) ==
    [i \in 1..Len(events) |-> EventEnvelope(events[i], i - 1)]

LegacyPending == [kind |-> "Pending", err |-> NoExecutionError]

LegacyOk == [kind |-> "Ok", err |-> NoExecutionError]

LegacyErr(err) == [kind |-> "Err", err |-> err]

NoLegacyCalls ==
    [build_state |-> 0, read_stream |-> 0, handle |-> 0, publish |-> 0,
     handle_error |-> 0]

\* The first engine about to enter its loop with `command`, a store holding
\* `stored`, and the caller's failure context.
\*   failed    how many publishes the store has failed
\*   passed    the contexts handed to handle_error, call by call
\*   returned  what handle_error answered, call by call
\*   initial   the store's content when execute was called
\*   received  the state last given to handle and the expected version last
\*             given to publish
LegacyStart(command, stored, failure_context, at) ==
    [pc |-> at, command |-> command, events |-> stored,
     failure_context |-> failure_context, state |-> StatefulDefault,
     expected_version |-> None, produced |-> <<>>, error |-> NoExecutionError,
     result |-> LegacyPending, calls |-> NoLegacyCalls, failed |-> 0,
     passed |-> <<>>, returned |-> <<>>, initial |-> stored,
     received |-> [state |-> StatefulDefault, expected_version |-> None]]

LegacyAtRest ==
    LegacyStart([kind |-> "Noop", policy |-> "Default"], <<>>, None, "idle")

\* the error of handle() offered to handle_error like a publish error
OnHandleFailedConsulting(called, err) ==
    [called EXCEPT !.pc = "handle_error", !.error = err]

\* let events = command.handle(state)?: the error of handle() leaves execute
OnHandleFailed(called, err) ==
    [called EXCEPT !.pc = "done", !.result = LegacyErr(err)]

\* the failure context of the caller kept, whatever handle_error returned
OnHandleErrorAnswerKeepingContext(called, answer) ==
    IF ~answer.ok
    THEN [called EXCEPT !.pc = "done", !.result = LegacyErr(answer.err)]
    ELSE IF answer.context.some
    THEN [called EXCEPT !.pc = "build_state",
                        !.returned = Append(@, answer.context)]
    ELSE [called EXCEPT !.pc = "done",
                        !.returned = Append(@, None),
                        !.result = LegacyErr(called.error)]

\* the storage error handed to handle_error retried even on None
OnHandleErrorAnswerRetrying(called, answer) ==
    IF ~answer.ok
    THEN [called EXCEPT !.pc = "done", !.result = LegacyErr(answer.err)]
    ELSE [called EXCEPT !.pc = "build_state",
                        !.returned = Append(@, answer.context),
                        !.failure_context = answer.context]

\* match command.handle_error(&error, failure_context)? {
\*     Some(updated_failure_context) => failure_context = Some(..), loop again
\*     None => return Err(error) }
OnHandleErrorAnswer(called, answer) ==
    IF ~answer.ok
    THEN [called EXCEPT !.pc = "done", !.result = LegacyErr(answer.err)]
    ELSE IF answer.context.some
    THEN [called EXCEPT !.pc = "build_state",
                        !.returned = Append(@, answer.context),
                        !.failure_context = answer.context]
    ELSE [called EXCEPT !.pc = "done",
                        !.returned = Append(@, None),
                        !.result = LegacyErr(called.error)]

(* ------------------------------------------------------------------ *)
(* execute (src/src/store/mod.rs)                                     *)
(* ------------------------------------------------------------------ *)

\* command.event_stream_id()
event_stream_id(e) ==
    IF cmd[e].kind \in DocumentedKinds
    THEN EventStreamIdNew(Len(ids[e]) + 1)
    ELSE cmd[e].id

\* the id the call in progress (read_stream, publish) was given
CurrentId(e) == ids[e][Len(ids[e])].id

\* event_stream_id() is called and its result used for `op`
Used(e, op) == [ids EXCEPT ![e] = Append(@, [op |-> op, id |-> event_stream_id(e)])]

\* command.override_expected_version()
override_expected_version(e) == cmd[e].override

\* config.retry_delay(): the RetryDelay the engines run with, one whose
\* products stay within the word for every retry count the budget allows
EngineRetryDelay == [base_delay_ms |-> 1, max_delay_ms |-> 2]

\* no sleep is in progress
NoBackoff == [sleeping |-> FALSE, retry_count |-> 0, ms |-> 0]

\* the delay computed from the counter after its increment
backoff_delay_after_increment(e) ==
    {outcome.ms : outcome \in
        {o \in UNION {calculate_delay(EngineRetryDelay.base_delay_ms,
                                      EngineRetryDelay.max_delay_ms,
                                      retries[e] + 1, profile) : profile \in Builds} :
            o.tag = "returned"}}

\* let delay = config.retry_delay().calculate_delay(retries): the durations
\* the call may return
backoff_delay(e) ==
    {outcome.ms : outcome \in
        {o \in UNION {calculate_delay(EngineRetryDelay.base_delay_ms,
                                      EngineRetryDelay.max_delay_ms,
                                      retries[e], profile) : profile \in Builds} :
            o.tag = "returned"}}

\* if retries >= config.max_retries(): the budget check off by one
BudgetExceededAtLimit(r, n) == r >= n

\* the budget check one retry late
BudgetExceededLate(r, n) == r > n + 1

\* if retries > config.max_retries()
BudgetExceeded(r, n) == r > n

\* publishing whatever handle() returned, an empty list included
NonEmptyAlways(events) == TRUE

\* if !domain_events.is_empty()
NonEmpty(events) == events # <<>>

\* the version read taking precedence over the command's override
AppendOptionsReadFirst(override, expected) ==
    CASE expected.some -> Exact(expected.v)
      [] ~expected.some /\ override.some -> Exact(override.v)
      [] OTHER -> AnyRevision

\* the version read being ignored: no precondition unless overridden
AppendOptionsIgnoringRead(override, expected) ==
    IF override.some THEN Exact(override.v) ELSE AnyRevision

\* a stream read as absent or empty required to be absent still
AppendOptionsNoStreamWhenUnread(override, expected) ==
    CASE override.some -> Exact(override.v)
      [] ~override.some /\ expected.some -> Exact(expected.v)
      [] OTHER -> NoStream

\* match (command.override_expected_version(), expected_version)
AppendOptions(override, expected) ==
    CASE override.some -> Exact(override.v)
      [] ~override.some /\ expected.some -> Exact(expected.v)
      [] OTHER -> AnyRevision

Count(e, op) == [calls EXCEPT ![e][op] = @ + 1]

\* execute returns `r`
Return(e, r) ==
    /\ pc' = [pc EXCEPT ![e] = "done"]
    /\ result' = [result EXCEPT ![e] = r]

\* a handle() error treated like a version mismatch: back off and retry
OnHandleErrorRetry(e, err) ==
    /\ pc' = [pc EXCEPT ![e] = "sleep"]
    /\ UNCHANGED result

\* Err(e) => break Err(Error::CommandFailed { .. })
OnHandleError(e, err) ==
    Return(e, CommandFailed(err, retries[e], max_retries[e]))

\* a failed read_stream treated like a version mismatch: back off and retry
OnReadErrorRetry(e, other) ==
    /\ pc' = [pc EXCEPT ![e] = "sleep"]
    /\ UNCHANGED result

\* Err(other) => break Err(other), for the result of read_stream
OnReadError(e, other) == Return(e, EventStoreOther(other))

\* a failed draw taken for the end of the stream: on to handle()
OnDrawErrorEndsStream(e, error) ==
    /\ pc' = [pc EXCEPT ![e] = "handle"]
    /\ UNCHANGED result

\* event_stream.next().await?: the error of a draw leaves execute
OnDrawError(e, error) == Return(e, error)

\* a successful publish followed by another turn of the loop
OnPublishedContinue(e) ==
    /\ pc' = [pc EXCEPT ![e] = "loop"]
    /\ UNCHANGED result

\* Ok(_) => break Ok(())
OnPublished(e) == Return(e, OkUnit)

\* every publish error treated like a version mismatch: back off and retry
OnPublishErrorRetry(e, err) ==
    /\ pc' = [pc EXCEPT ![e] = "sleep"]
    /\ UNCHANGED result

\* Err(e) => break Err(e), for the result of publish
OnPublishError(e, err) == Return(e, EventStoreOther(err))

\* the head of the loop with expected_version declared once, before the
\* loop: an attempt starts with the version the previous attempt read
LoopKeepingExpectedVersion(e) ==
    /\ pc[e] = "loop"
    /\ IF BudgetExceeded(retries[e], max_retries[e])
       THEN /\ Return(e, MaxRetriesExceeded(event_stream_id(e), max_retries[e]))
            /\ ids' = Used(e, "report")
            /\ UNCHANGED <<seen, calls>>
       ELSE /\ ids' = Used(e, "read")
            /\ seen' = [seen EXCEPT ![e] = <<>>]
            /\ calls' = Count(e, "read")
            /\ pc' = [pc EXCEPT ![e] = "read_stream"]
            /\ UNCHANGED result
    /\ UNCHANGED <<streams, cmd, max_retries, retries, state, event_stream,
                   domain_events, append_options, decided, before, store_error>>
    /\ UNCHANGED expected_version
    /\ UNCHANGED backoff
    /\ UNCHANGED aux_vars

\* The head of the loop: the budget check, then expected_version = None and
\* the call of read_stream.
Loop(e) ==
    /\ pc[e] = "loop"
    /\ IF BudgetExceeded(retries[e], max_retries[e])
       THEN /\ Return(e, MaxRetriesExceeded(event_stream_id(e), max_retries[e]))
            /\ ids' = Used(e, "report")
            /\ UNCHANGED <<expected_version, seen, calls>>
       ELSE /\ ids' = Used(e, "read")
            /\ expected_version' = [expected_version EXCEPT ![e] = None]
            /\ seen' = [seen EXCEPT ![e] = <<>>]
            /\ calls' = Count(e, "read")
            /\ pc' = [pc EXCEPT ![e] = "read_stream"]
            /\ UNCHANGED result
    /\ UNCHANGED <<streams, cmd, max_retries, retries, state, event_stream,
                   domain_events, append_options, decided, before, store_error>>
    /\ UNCHANGED backoff
    /\ UNCHANGED aux_vars

\* read_stream answers; match read_result
ReadStream(e) ==
    /\ pc[e] = "read_stream"
    /\ \E answer \in ReadAnswers(streams[CurrentId(e)]) :
          CASE answer.tag = "NotFound" ->
                  /\ pc' = [pc EXCEPT ![e] = "handle"]
                  /\ UNCHANGED <<result, event_stream, store_error>>
            [] answer.tag = "Failed" ->
                  /\ OnReadError(e, answer.source)
                  /\ store_error' = [store_error EXCEPT ![e] =
                        [op |-> "read", source |-> answer.source]]
                  /\ UNCHANGED event_stream
            [] answer.tag = "Stream" ->
                  /\ event_stream' = [event_stream EXCEPT ![e] =
                        [items |-> answer.items, missing |-> answer.missing]]
                  /\ pc' = [pc EXCEPT ![e] = "next"]
                  /\ UNCHANGED <<result, store_error>>
    /\ UNCHANGED <<streams, cmd, max_retries, retries, state, expected_version,
                   domain_events, append_options, calls, seen, decided, before>>
    /\ UNCHANGED backoff
    /\ UNCHANGED ids
    /\ UNCHANGED aux_vars

\* while let Some((event, version)) = event_stream.next().await?
NextEvent(e) ==
    /\ pc[e] = "next"
    /\ \E raw \in RawDraws(event_stream[e]) :
          LET drawn == EventStreamNext(event_stream[e], raw) IN
          CASE drawn.tag = "Err" ->
                  /\ OnDrawError(e, drawn.error)
                  /\ event_stream' = [event_stream EXCEPT ![e] = NoStreamHandle]
                  /\ store_error' = [store_error EXCEPT ![e] =
                        [op |-> "next", source |-> drawn.error.source]]
                  /\ UNCHANGED <<state, expected_version, seen>>
            [] drawn.tag = "None" ->
                  /\ pc' = [pc EXCEPT ![e] = "handle"]
                  /\ event_stream' = [event_stream EXCEPT ![e] = NoStreamHandle]
                  /\ UNCHANGED <<result, state, expected_version, seen, store_error>>
            [] drawn.tag = "Some" ->
                  /\ state' = [state EXCEPT ![e] = CommandApply(@, drawn.event)]
                  /\ expected_version' =
                        [expected_version EXCEPT ![e] = Some(drawn.version)]
                  /\ seen' = [seen EXCEPT ![e] = Append(@,
                        [data |-> drawn.event, revision |-> drawn.version])]
                  /\ event_stream' =
                        [event_stream EXCEPT ![e].items = Tail(@)]
                  /\ UNCHANGED <<pc, result, store_error>>
    /\ UNCHANGED <<streams, cmd, max_retries, retries, domain_events,
                   append_options, calls, decided, before>>
    /\ UNCHANGED backoff
    /\ UNCHANGED ids
    /\ UNCHANGED aux_vars

\* command.handle(), and for a non-empty result the append options and the
\* call of publish
HandleCommand(e) ==
    /\ pc[e] = "handle"
    /\ calls' = Count(e, "handle")
    /\ decided' = [decided EXCEPT ![e] = [state |-> state[e], events |-> seen[e]]]
    /\ LET handled == Handle(cmd[e].kind, state[e]) IN
       IF ~handled.ok
       THEN /\ OnHandleError(e, handled.err)
            /\ UNCHANGED <<domain_events, append_options, ids>>
       ELSE IF ~NonEmpty(handled.events)
       THEN /\ Return(e, OkUnit)
            /\ UNCHANGED <<domain_events, append_options, ids>>
       ELSE /\ domain_events' = [domain_events EXCEPT ![e] = handled.events]
            /\ ids' = Used(e, "publish")
            /\ append_options' = [append_options EXCEPT ![e] =
                  AppendOptions(override_expected_version(e), expected_version[e])]
            /\ pc' = [pc EXCEPT ![e] = "publish"]
            /\ UNCHANGED result
    /\ UNCHANGED <<streams, cmd, max_retries, retries, state, expected_version,
                   event_stream, seen, before, store_error>>
    /\ UNCHANGED backoff
    /\ UNCHANGED aux_vars

\* publish answers, its version mismatch handed to the caller like any other
\* error of the store
PublishSurfacingMismatch(e) ==
    /\ pc[e] = "publish"
    /\ LET id == CurrentId(e)
           recs == streams[id]
       IN \E answer \in PublishAnswers(recs, append_options[e]) :
          CASE answer = "Ok" ->
                  /\ streams' = [streams EXCEPT ![id] =
                        recs \o NewRecords(recs, ToEventData(domain_events[e]), e)]
                  /\ before' = [before EXCEPT ![e] =
                        [appended |-> TRUE, recs |-> recs]]
                  /\ calls' = Count(e, "publish")
                  /\ OnPublished(e)
                  /\ UNCHANGED <<store_error, backoff>>
            [] answer = "VersionMismatch" ->
                  /\ Return(e, Res("EventStoreVersionMismatch", id, 0, "", 0,
                                   "WrongExpectedVersion"))
                  /\ calls' = [calls EXCEPT ![e].publish = @ + 1,
                                            ![e].mismatch = @ + 1]
                  /\ UNCHANGED <<streams, before, store_error, backoff>>
            [] answer \in StoreErrors ->
                  /\ OnPublishError(e, answer)
                  /\ store_error' = [store_error EXCEPT ![e] =
                        [op |-> "publish", source |-> answer]]
                  /\ calls' = Count(e, "publish")
                  /\ UNCHANGED <<streams, before, backoff>>
    /\ UNCHANGED <<cmd, max_retries, retries, state, expected_version,
                   event_stream, domain_events, append_options, seen, decided>>
    /\ UNCHANGED ids
    /\ UNCHANGED aux_vars

\* publish answers, the budget being checked in the VersionMismatch arm: the
\* mismatch that uses up the budget is reported at once, without a sleep
PublishReportingAtOnce(e) ==
    /\ pc[e] = "publish"
    /\ LET id == CurrentId(e)
           recs == streams[id]
       IN \E answer \in PublishAnswers(recs, append_options[e]) :
          CASE answer = "Ok" ->
                  /\ streams' = [streams EXCEPT ![id] =
                        recs \o NewRecords(recs, ToEventData(domain_events[e]), e)]
                  /\ before' = [before EXCEPT ![e] =
                        [appended |-> TRUE, recs |-> recs]]
                  /\ calls' = Count(e, "publish")
                  /\ OnPublished(e)
                  /\ UNCHANGED <<store_error, backoff>>
            [] answer = "VersionMismatch" ->
                  /\ IF retries[e] >= max_retries[e]
                     THEN /\ Return(e, MaxRetriesExceeded(id, max_retries[e]))
                          /\ UNCHANGED backoff
                     ELSE /\ \E ms \in backoff_delay(e) :
                                backoff' = [backoff EXCEPT ![e] =
                                    [sleeping |-> TRUE, retry_count |-> retries[e],
                                     ms |-> ms]]
                          /\ pc' = [pc EXCEPT ![e] = "sleep"]
                          /\ UNCHANGED result
                  /\ calls' = [calls EXCEPT ![e].publish = @ + 1,
                                            ![e].mismatch = @ + 1]
                  /\ UNCHANGED <<streams, before, store_error>>
            [] answer \in StoreErrors ->
                  /\ OnPublishError(e, answer)
                  /\ store_error' = [store_error EXCEPT ![e] =
                        [op |-> "publish", source |-> answer]]
                  /\ calls' = Count(e, "publish")
                  /\ UNCHANGED <<streams, before, backoff>>
    /\ UNCHANGED <<cmd, max_retries, retries, state, expected_version,
                   event_stream, domain_events, append_options, seen, decided>>
    /\ UNCHANGED ids
    /\ UNCHANGED aux_vars

\* publish answers; match on its result
Publish(e) ==
    /\ pc[e] = "publish"
    /\ LET id == CurrentId(e)
           recs == streams[id]
       IN \E answer \in PublishAnswers(recs, append_options[e]) :
          CASE answer = "Ok" ->
                  /\ streams' = [streams EXCEPT ![id] =
                        recs \o NewRecords(recs, ToEventData(domain_events[e]), e)]
                  /\ before' = [before EXCEPT ![e] =
                        [appended |-> TRUE, recs |-> recs]]
                  /\ calls' = Count(e, "publish")
                  /\ OnPublished(e)
                  /\ UNCHANGED <<store_error, backoff>>
            [] answer = "VersionMismatch" ->
                  /\ \E ms \in backoff_delay(e) :
                        backoff' = [backoff EXCEPT ![e] =
                            [sleeping |-> TRUE, retry_count |-> retries[e],
                             ms |-> ms]]
                  /\ pc' = [pc EXCEPT ![e] = "sleep"]
                  /\ calls' = [calls EXCEPT ![e].publish = @ + 1,
                                            ![e].mismatch = @ + 1]
                  /\ UNCHANGED <<streams, before, result, store_error>>
            [] answer \in StoreErrors ->
                  /\ OnPublishError(e, answer)
                  /\ store_error' = [store_error EXCEPT ![e] =
                        [op |-> "publish", source |-> answer]]
                  /\ calls' = Count(e, "publish")
                  /\ UNCHANGED <<streams, before, backoff>>
    /\ UNCHANGED <<cmd, max_retries, retries, state, expected_version,
                   event_stream, domain_events, append_options, seen, decided>>
    /\ UNCHANGED ids
    /\ UNCHANGED aux_vars

\* the end of a sleep without the call of mark_retry: retries += 1; continue
SleepWithoutMarkRetry(e) ==
    /\ pc[e] = "sleep"
    /\ retries' = [retries EXCEPT ![e] = @ + 1]
    /\ backoff' = [backoff EXCEPT ![e] = NoBackoff]
    /\ pc' = [pc EXCEPT ![e] = "loop"]
    /\ calls' = Count(e, "sleep")
    /\ UNCHANGED <<streams, cmd, max_retries, state, expected_version, event_stream,
                   domain_events, append_options, result, seen, decided,
                   before, store_error>>
    /\ UNCHANGED ids
    /\ UNCHANGED aux_vars

\* tokio::time::sleep(delay).await is over:
\* command = command.mark_retry(); retries += 1; continue
Sleep(e) ==
    /\ pc[e] = "sleep"
    /\ state' = [state EXCEPT ![e] = MarkRetry(@)]
    /\ retries' = [retries EXCEPT ![e] = @ + 1]
    /\ calls' = [calls EXCEPT ![e].sleep = @ + 1, ![e].mark_retry = @ + 1]
    /\ backoff' = [backoff EXCEPT ![e] = NoBackoff]
    /\ pc' = [pc EXCEPT ![e] = "loop"]
    /\ UNCHANGED <<streams, cmd, max_retries, expected_version, event_stream,
                   domain_events, append_options, result, seen, decided, before,
                   store_error>>
    /\ UNCHANGED ids
    /\ UNCHANGED aux_vars

\* The .await points of execute: the future can be dropped at any of them
SuspensionPoints == {"read_stream", "next", "publish", "sleep"}

\* What a publish in flight has done to the stream when its future is
\* dropped: nothing, or the whole append if its precondition held.
InFlight(recs, batch, options, writer) ==
    {recs} \cup (IF RevisionHolds(recs, options)
                 THEN {recs \o NewRecords(recs, batch, writer)}
                 ELSE {})

\* The host drops the future of execute while it waits at an .await: the
\* engine takes no further step and returns nothing.
Cancel(e) ==
    /\ pc[e] \in SuspensionPoints
    /\ pc' = [pc EXCEPT ![e] = "cancelled"]
    /\ IF pc[e] = "publish"
       THEN LET id == CurrentId(e)
                recs == streams[id]
            IN \E now \in InFlight(recs, ToEventData(domain_events[e]),
                                   append_options[e], e) :
                  /\ streams' = [streams EXCEPT ![id] = now]
                  /\ before' = IF now = recs THEN before
                               ELSE [before EXCEPT ![e] =
                                        [appended |-> TRUE, recs |-> recs]]
       ELSE UNCHANGED <<streams, before>>
    /\ UNCHANGED <<cmd, max_retries, retries, state, expected_version,
                   event_stream, domain_events, append_options, result, calls,
                   seen, decided, store_error, backoff>>
    /\ UNCHANGED ids
    /\ UNCHANGED aux_vars

\* An independent writer appends one event (Deposited { amount: 1 }), with no
\* precondition, to a stream that a running engine targets.
OtherWriter ==
    /\ \E id \in StreamIds :
          /\ Len(streams[id]) < MaxStreamLen
          /\ \E e \in Procs : pc[e] \notin {"idle", "done"} /\ cmd[e].id = id
          /\ streams' = [streams EXCEPT ![id] =
                @ \o NewRecords(@, ToEventData(<<1>>), "other")]
    /\ UNCHANGED <<pc, cmd, max_retries, retries, state, expected_version,
                   event_stream, domain_events, append_options, result, calls,
                   seen, decided, before, store_error>>
    /\ UNCHANGED backoff
    /\ UNCHANGED ids
    /\ UNCHANGED aux_vars

\* Another client of the store deletes a stream that a running engine
\* targets: the stream reads as absent from then on, until it is written again.
DeleteStream ==
    /\ \E id \in StreamIds :
          /\ streams[id] # <<>>
          /\ \E e \in Procs : pc[e] \notin {"idle", "done"} /\ cmd[e].id = id
          /\ streams' = [streams EXCEPT ![id] = <<>>]
    /\ UNCHANGED <<pc, cmd, max_retries, retries, state, expected_version,
                   event_stream, domain_events, append_options, result, calls,
                   seen, decided, before, store_error>>
    /\ UNCHANGED backoff
    /\ UNCHANGED ids
    /\ UNCHANGED aux_vars

(* ------------------------------------------------------------------ *)
(* Specification                                                      *)
(* ------------------------------------------------------------------ *)

Overrides == {None} \cup {Some(v) : v \in 0..MaxOverride}

Commands == [kind : CommandKinds, id : StreamIds, override : Overrides]

IdleCommand == [kind |-> "Noop", id |-> "A", override |-> None]

NoCalls ==
    [read |-> 0, handle |-> 0, publish |-> 0, mismatch |-> 0, sleep |-> 0,
     mark_retry |-> 0]

\* The engines of `started` are about to enter the loop of execute, each with
\* one of `commands` carrying its empty state; stream "A" is pre-seeded with up to
\* MaxSeedLen events (Deposited { amount: 1 }), stream "B" was never written.
InitOf(started, commands) ==
    /\ \E n \in 0..MaxSeedLen :
          streams = [id \in AllStreamIds |->
                        IF id = "A"
                        THEN NewRecords(<<>>, ToEventData([i \in 1..n |-> 1]), "seed")
                        ELSE <<>>]
    /\ pc = [e \in Procs |-> IF e \in started THEN "loop" ELSE "idle"]
    /\ cmd \in [Procs -> commands \cup {IdleCommand}]
    /\ \A e \in Procs \ started : cmd[e] = IdleCommand
    /\ max_retries \in [Procs -> 1..MaxRetriesBound]
    /\ \A e \in Procs \ started : max_retries[e] = 1
    /\ retries = [e \in Procs |-> 0]
    /\ state = [e \in Procs |-> EmptyState]
    /\ expected_version = [e \in Procs |-> None]
    /\ event_stream = [e \in Procs |-> NoStreamHandle]
    /\ domain_events = [e \in Procs |-> <<>>]
    /\ append_options = [e \in Procs |-> AnyRevision]
    /\ result = [e \in Procs |-> Pending]
    /\ calls = [e \in Procs |-> NoCalls]
    /\ seen = [e \in Procs |-> <<>>]
    /\ decided = [e \in Procs |-> [state |-> EmptyState, events |-> <<>>]]
    /\ before = [e \in Procs |-> [appended |-> FALSE, recs |-> <<>>]]
    /\ store_error = [e \in Procs |-> NoStoreError]
    /\ ids = [e \in Procs |-> <<>>]
    /\ backoff = [e \in Procs |-> NoBackoff]
    /\ delay = DelayAtRest
    /\ config = ConfigAtRest
    /\ append = NoAppend
    /\ settings = SettingsAtRest
    /\ legacy = LegacyAtRest
    /\ jitter = JitterAtRest
    /\ secure = SecureAtRest

\* ... the commands being those that carry their stream id in a field
InitWith(started) == InitOf(started, Commands)

Init == InitWith({"e1"})

Next ==
    \/ \E e \in Procs : Loop(e)
    \/ \E e \in Procs : ReadStream(e)
    \/ \E e \in Procs : NextEvent(e)
    \/ \E e \in Procs : HandleCommand(e)
    \/ \E e \in Procs : Publish(e)
    \/ \E e \in Procs : Sleep(e)
    \/ OtherWriter

Spec == Init /\ [][Next]_vars

\* execute given any command, those the crate documents included
DocumentedCommands == [kind : DocumentedKinds, id : {"A"}, override : {None}]

DocumentedInit == InitOf({"e1"}, Commands \cup DocumentedCommands)

DocumentedSpec == DocumentedInit /\ [][Next]_vars

\* execute run by a host that may cancel it
CancelNext == Next \/ \E e \in Procs : Cancel(e)

CancelSpec == Init /\ [][CancelNext]_vars

\* execute against a store whose streams other clients may delete
DeleteNext == Next \/ DeleteStream

DeleteSpec == Init /\ [][DeleteNext]_vars

\* the steps of execute for engine e
Engine(e) ==
    \/ Loop(e) \/ ReadStream(e) \/ NextEvent(e)
    \/ HandleCommand(e) \/ Publish(e) \/ Sleep(e)

\* execute under the proviso that each store operation and each sleep returns
FairSpec == Spec /\ \A e \in Procs : WF_vars(Engine(e))

\* Every engine executes one event-producing command without version
\* override, all on stream "A", concurrently.
ConcurrentCommands == [kind : {"EventProducing", "Stateful"}, id : {"A"}, override : {None}]

ConcurrentInit == InitOf(Procs, ConcurrentCommands)

\* the steps of the engines, which are the only writers
EnginesNext == \E e \in Procs : Engine(e)

EnginesSpec == ConcurrentInit /\ [][EnginesNext]_vars

\* No engine runs and the store is empty.
EngineAtRest ==
    /\ streams = [id \in AllStreamIds |-> <<>>]
    /\ pc = [e \in Procs |-> "idle"]
    /\ cmd = [e \in Procs |-> IdleCommand]
    /\ max_retries = [e \in Procs |-> 1]
    /\ retries = [e \in Procs |-> 0]
    /\ state = [e \in Procs |-> EmptyState]
    /\ expected_version = [e \in Procs |-> None]
    /\ event_stream = [e \in Procs |-> NoStreamHandle]
    /\ domain_events = [e \in Procs |-> <<>>]
    /\ append_options = [e \in Procs |-> AnyRevision]
    /\ result = [e \in Procs |-> Pending]
    /\ calls = [e \in Procs |-> NoCalls]
    /\ seen = [e \in Procs |-> <<>>]
    /\ decided = [e \in Procs |-> [state |-> EmptyState, events |-> <<>>]]
    /\ before = [e \in Procs |-> [appended |-> FALSE, recs |-> <<>>]]
    /\ store_error = [e \in Procs |-> NoStoreError]
    /\ ids = [e \in Procs |-> <<>>]
    /\ backoff = [e \in Procs |-> NoBackoff]

(* ------------------------------------------------------------------ *)
(* Specification of RetryDelay::calculate_delay                       *)
(* ------------------------------------------------------------------ *)

\* A RetryDelay::new(base_delay_ms, max_delay_ms), any values, and a retry count
DelayInit ==
    /\ EngineAtRest
    /\ config = ConfigAtRest
    /\ append = NoAppend
    /\ settings = SettingsAtRest
    /\ legacy = LegacyAtRest
    /\ jitter = JitterAtRest
    /\ secure = SecureAtRest
    /\ \E base_delay_ms \in 0..MaxBaseDelay, max_delay_ms \in 0..MaxMaxDelay,
          retry_count \in 0..MaxRetryCount, profile \in Builds :
          delay = [base_delay_ms |-> base_delay_ms, max_delay_ms |-> max_delay_ms,
                   retry_count |-> retry_count, build |-> profile,
                   outcome |-> NoDelay]

\* self.calculate_delay(retry_count)
CalculateDelay ==
    /\ delay.outcome = NoDelay
    /\ \E outcome \in calculate_delay(delay.base_delay_ms, delay.max_delay_ms,
                                      delay.retry_count, delay.build) :
          delay' = [delay EXCEPT !.outcome = outcome]
    /\ UNCHANGED but_delay

DelayNext == CalculateDelay

DelaySpec == DelayInit /\ [][DelayNext]_vars

(* ------------------------------------------------------------------ *)
(* Specification of the ExecuteConfig builders                        *)
(* ------------------------------------------------------------------ *)

ConfigInit ==
    /\ EngineAtRest
    /\ delay = DelayAtRest
    /\ config = ConfigAtRest
    /\ append = NoAppend
    /\ settings = SettingsAtRest
    /\ legacy = LegacyAtRest
    /\ jitter = JitterAtRest
    /\ secure = SecureAtRest

\* what a builder call leaves the caller with
AfterBuilder(op, arg, built) ==
    config' = [held |-> built.ok,
               value |-> IF built.ok THEN built.value ELSE ExecuteConfigDefault,
               call |-> [op |-> op, arg |-> arg, result |-> built]]

\* ExecuteConfig::default()
ConfigDefault ==
    /\ config' = ConfigAtRest
    /\ UNCHANGED but_config

\* config.with_max_retries(n)
WithMaxRetries ==
    /\ config.held
    /\ \E n \in 0..MaxConfigArg :
          AfterBuilder("with_max_retries", n, with_max_retries(config.value, n))
    /\ UNCHANGED but_config

\* config.with_base_delay(ms)
WithBaseDelay ==
    /\ config.held
    /\ \E ms \in 0..MaxConfigArg :
          AfterBuilder("with_base_delay", ms, with_base_delay(config.value, ms))
    /\ UNCHANGED but_config

ConfigNext == ConfigDefault \/ WithMaxRetries \/ WithBaseDelay

ConfigSpec == ConfigInit /\ [][ConfigNext]_vars

(* ------------------------------------------------------------------ *)
(* Specification of the store's append                                *)
(* ------------------------------------------------------------------ *)

StoreInit ==
    /\ EngineAtRest
    /\ delay = DelayAtRest
    /\ config = ConfigAtRest
    /\ append = NoAppend
    /\ settings = SettingsAtRest
    /\ legacy = LegacyAtRest
    /\ jitter = JitterAtRest
    /\ secure = SecureAtRest

\* the preconditions a stream writer may state
Preconditions == {AnyRevision, NoStream} \cup {Exact(v) : v \in 0..MaxStreamLen}

\* stream_writer(id).<precondition>.append(events): a batch of one or two
\* events
WriterAppend ==
    /\ \E id \in StreamIds, options \in Preconditions, n \in 1..2 :
          LET recs == streams[id]
              batch == ToEventData([i \in 1..n |-> 1])
              answer == AppendAnswer(recs, id, options)
          IN /\ Len(recs) < MaxStreamLen
             /\ streams' = [streams EXCEPT ![id] =
                    IF answer = AppendedOk
                    THEN recs \o NewRecords(recs, batch, "writer")
                    ELSE recs]
             /\ append' = [stream |-> id, options |-> options, batch |-> batch,
                           recs |-> recs, answer |-> answer]
    /\ UNCHANGED but_append

StoreNext == WriterAppend

StoreSpec == StoreInit /\ [][StoreNext]_vars

(* ------------------------------------------------------------------ *)
(* Specification of ConnectionSettings and its builder                *)
(* ------------------------------------------------------------------ *)

\* ConnectionSettings::builder()
SettingsInit ==
    /\ EngineAtRest
    /\ delay = DelayAtRest
    /\ config = ConfigAtRest
    /\ append = NoAppend
    /\ settings = SettingsAtRest
    /\ legacy = LegacyAtRest
    /\ jitter = JitterAtRest
    /\ secure = SecureAtRest

\* builder.host(h); `given` keeps the last value handed to each setter
SetHost ==
    /\ settings.built = NotBuilt
    /\ \E h \in Hosts :
          settings' = [settings EXCEPT !.builder = host(@, h),
                                       !.given.host = Some(h)]
    /\ UNCHANGED but_settings

SetPort ==
    /\ settings.built = NotBuilt
    /\ \E p \in Ports :
          settings' = [settings EXCEPT !.builder = port(@, p),
                                       !.given.port = Some(p)]
    /\ UNCHANGED but_settings

SetTls ==
    /\ settings.built = NotBuilt
    /\ \E enable \in BOOLEAN :
          settings' = [settings EXCEPT !.builder = tls(@, enable),
                                       !.given.tls = Some(enable)]
    /\ UNCHANGED but_settings

SetUsername ==
    /\ settings.built = NotBuilt
    /\ \E u \in Usernames :
          settings' = [settings EXCEPT !.builder = username(@, u),
                                       !.given.username = Some(u)]
    /\ UNCHANGED but_settings

SetPassword ==
    /\ settings.built = NotBuilt
    /\ \E p \in Passwords :
          settings' = [settings EXCEPT !.builder = password(@, p),
                                       !.given.password = Some(p)]
    /\ UNCHANGED but_settings

\* builder.build()
Build ==
    /\ settings.built = NotBuilt
    /\ settings' = [settings EXCEPT !.built = build(settings.builder)]
    /\ UNCHANGED but_settings

\* format!("{:?}", settings), and the same for settings that differ from
\* them in the password only
TakeDebug ==
    /\ settings.built.tag = "Ok"
    /\ ~settings.debug.taken
    /\ \E p \in Passwords :
          LET other == [settings.built.value EXCEPT !.password = p] IN
          settings' = [settings EXCEPT !.debug =
                [taken |-> TRUE, text |-> fmt(settings.built.value),
                 other |-> other, other_text |-> fmt(other)]]
    /\ UNCHANGED but_settings

SettingsNext ==
    \/ SetHost \/ SetPort \/ SetTls \/ SetUsername \/ SetPassword
    \/ Build \/ TakeDebug

SettingsSpec == SettingsInit /\ [][SettingsNext]_vars

(* ------------------------------------------------------------------ *)
(* Specification of SecureString                                      *)
(* ------------------------------------------------------------------ *)

\* SecureString::new(s), for any secret
SecureInit ==
    /\ EngineAtRest
    /\ delay = DelayAtRest
    /\ config = ConfigAtRest
    /\ append = NoAppend
    /\ settings = SettingsAtRest
    /\ legacy = LegacyAtRest
    /\ jitter = JitterAtRest
    /\ \E s \in Secrets :
          secure = [original |-> SecureStringNew(s), clone |-> NoSecureString]

\* the value is cloned (ConnectionSettings derives Clone)
CloneSecure ==
    /\ ~secure.original.dropped
    /\ ~secure.clone.exists
    /\ secure' = [secure EXCEPT !.clone = SecureStringClone(secure.original)]
    /\ UNCHANGED but_secure

\* the value created by new goes out of scope
DropOriginal ==
    /\ ~secure.original.dropped
    /\ secure' = [secure EXCEPT !.original = SecureStringDrop(@)]
    /\ UNCHANGED but_secure

\* the clone goes out of scope
DropClone ==
    /\ secure.clone.exists
    /\ ~secure.clone.dropped
    /\ secure' = [secure EXCEPT !.clone = SecureStringDrop(@)]
    /\ UNCHANGED but_secure

SecureNext == CloneSecure \/ DropOriginal \/ DropClone

SecureSpec == SecureInit /\ [][SecureNext]_vars

(* ------------------------------------------------------------------ *)
(* Specification of the jitter of concurrent threads                  *)
(* ------------------------------------------------------------------ *)

\* Two threads, neither of which has used its THREAD_RNG yet
JitterInit ==
    /\ EngineAtRest
    /\ delay = DelayAtRest
    /\ config = ConfigAtRest
    /\ append = NoAppend
    /\ settings = SettingsAtRest
    /\ legacy = LegacyAtRest
    /\ jitter = JitterAtRest
    /\ secure = SecureAtRest

\* thread t calls calculate_delay(retry_count) on the RetryDelay the threads
\* share: THREAD_RNG.with creates the thread's generator at its first use
ThreadCalculateDelay(t) ==
    /\ Len(jitter[t].counts) < MaxDraws
    /\ \E retry_count \in 0..MaxJitterRetry :
          LET rng == IF jitter[t].created THEN jitter[t].rng ELSE THREAD_RNG
              drawn == gen_range(rng, capped_delay(JitterRetryDelay.base_delay_ms,
                                                   JitterRetryDelay.max_delay_ms,
                                                   retry_count))
          IN jitter' = [jitter EXCEPT ![t] =
                [created |-> TRUE, rng |-> drawn.rng,
                 counts |-> Append(jitter[t].counts, retry_count),
                 delays |-> Append(jitter[t].delays, drawn.value)]]
    /\ UNCHANGED but_jitter

JitterNext == \E t \in Threads : ThreadCalculateDelay(t)

JitterSpec == JitterInit /\ [][JitterNext]_vars

(* ------------------------------------------------------------------ *)
(* Specification of the first engine                                  *)
(* ------------------------------------------------------------------ *)

\* execute(command, &mut event_store, failure_context) is called on a store
\* pre-loaded with up to two events
LegacyInit ==
    /\ EngineAtRest
    /\ delay = DelayAtRest
    /\ config = ConfigAtRest
    /\ append = NoAppend
    /\ settings = SettingsAtRest
    /\ jitter = JitterAtRest
    /\ secure = SecureAtRest
    /\ \E command \in LegacyCommands, n \in 0..2, failure_context \in {None, Some(0)},
          foo \in {123, 124}, bar \in {123, 124} :
          legacy = LegacyStart(command,
                      Preloaded(SubSeq(<<FooHappened(foo), BarHappened(bar)>>, 1, n)),
                      failure_context, "build_state")

\* let (state, expected_version) = build_state(&command, event_store).await?
LegacyBuildState ==
    /\ legacy.pc = "build_state"
    /\ IF ~legacy_event_stream_id(legacy.command).some
       THEN legacy' = [legacy EXCEPT !.pc = "handle",
                                     !.calls.build_state = @ + 1,
                                     !.state = StatefulDefault,
                                     !.expected_version = None]
       ELSE \/ legacy' = [legacy EXCEPT !.pc = "handle",
                                        !.calls.build_state = @ + 1,
                                        !.calls.read_stream = @ + 1,
                                        !.state = fold(StatefulDefault, legacy.events),
                                        !.expected_version = last_version(legacy.events)]
            \/ \E storage_error \in StorageErrors :
                  legacy' = [legacy EXCEPT !.pc = "done",
                                           !.calls.build_state = @ + 1,
                                           !.calls.read_stream = @ + 1,
                                           !.result = LegacyErr(ExecutionErrorFrom(storage_error))]
    /\ UNCHANGED but_legacy

\* let events = command.handle(state)?
LegacyHandle ==
    /\ legacy.pc = "handle"
    /\ LET handled == legacy_handle(legacy.command, legacy.state) IN
       IF handled.ok
       THEN legacy' = [legacy EXCEPT !.pc = "publish", !.calls.handle = @ + 1,
                                     !.received.state = legacy.state,
                                     !.produced = handled.events]
       ELSE legacy' = OnHandleFailed([legacy EXCEPT !.calls.handle = @ + 1,
                                                    !.received.state = legacy.state],
                                     handled.err)
    /\ UNCHANGED but_legacy

\* event_store.publish(events, expected_version).await.map_err(C::Error::from):
\* the store either fails, storing nothing, or pushes the batch
LegacyPublish ==
    /\ legacy.pc = "publish"
    /\ \/ /\ legacy.failed < MaxPublishFailures
          /\ \E storage_error \in StorageErrors :
                legacy' = [legacy EXCEPT !.pc = "handle_error",
                                         !.calls.publish = @ + 1,
                                         !.received.expected_version =
                                             legacy.expected_version,
                                         !.failed = @ + 1,
                                         !.error = ExecutionErrorFrom(storage_error)]
       \/ legacy' = [legacy EXCEPT !.pc = "done",
                                   !.calls.publish = @ + 1,
                                   !.received.expected_version =
                                       legacy.expected_version,
                                   !.events = @ \o Envelopes(@, legacy.produced),
                                   !.result = LegacyOk]
    /\ UNCHANGED but_legacy

\* Err(error) => match command.handle_error(&error, failure_context)?
LegacyHandleError ==
    /\ legacy.pc = "handle_error"
    /\ LET answer == handle_error(legacy.command, legacy.error, legacy.failure_context)
           called == [legacy EXCEPT !.calls.handle_error = @ + 1,
                                    !.passed = Append(@, legacy.failure_context)]
       IN legacy' = OnHandleErrorAnswer(called, answer)
    /\ UNCHANGED but_legacy

LegacyNext ==
    LegacyBuildState \/ LegacyHandle \/ LegacyPublish \/ LegacyHandleError

LegacySpec == LegacyInit /\ [][LegacyNext]_vars

(* ------------------------------------------------------------------ *)
(* Specification of EventStoreImpl, published to directly             *)
(* ------------------------------------------------------------------ *)

\* the batches given to publish: one or two of the tests' events
Batches ==
    LET one == {FooHappened(123), BarHappened(123), CommandRecovered}
    IN {<<a>> : a \in one} \cup {<<a, b>> : a \in one, b \in one}

\* EventStoreImpl::new(): events: vec![], should_fail: false
EventStoreImplInit ==
    /\ EngineAtRest
    /\ delay = DelayAtRest
    /\ config = ConfigAtRest
    /\ append = NoAppend
    /\ settings = SettingsAtRest
    /\ jitter = JitterAtRest
    /\ secure = SecureAtRest
    /\ legacy = LegacyStart([kind |-> "Noop", policy |-> "Default"], <<>>, None, "store")

\* publish(events, _expected_version) with should_fail unset: the batch is
\* pushed, its versions counted from starting_version
EventStoreImplPublish ==
    /\ legacy.pc = "store"
    /\ \E events \in Batches :
          /\ Len(legacy.events) + Len(events) <= MaxStored
          /\ legacy' = [legacy EXCEPT !.events = @ \o Envelopes(@, events)]
    /\ UNCHANGED but_legacy

\* produce_error_for_next_publish(), then publish: should_fail is cleared,
\* Err(StorageError::Other) is returned and nothing is pushed
EventStoreImplPublishFails ==
    /\ legacy.pc = "store"
    /\ legacy.failed < MaxPublishFailures
    /\ legacy' = [legacy EXCEPT !.failed = @ + 1]
    /\ UNCHANGED but_legacy

EventStoreImplNext == EventStoreImplPublish \/ EventStoreImplPublishFails

EventStoreImplSpec == EventStoreImplInit /\ [][EventStoreImplNext]_vars

(* ------------------------------------------------------------------ *)
(* Auxiliary definitions for the properties                           *)
(* ------------------------------------------------------------------ *)

\* the records engine e has written to the store
Written(e) ==
    UNION {{<<id, i>> : i \in {j \in DOMAIN streams[id] : streams[id][j].writer = e}}
             : id \in AllStreamIds}

\* engine e has appended nothing to any stream
AppendedNothing(e) == Written(e) = {} /\ ~before[e].appended

\* p is a prefix of s
IsPrefix(p, s) == Len(p) <= Len(s) /\ SubSeq(s, 1, Len(p)) = p

\* what handle() answered when engine e last called it
LastHandled(e) == Handle(cmd[e].kind, decided[e].state)

(* ------------------------------------------------------------------ *)
(* Properties                                                         *)
(* ------------------------------------------------------------------ *)

\* C1: if every attempt of one execute call reaches publish and every publish
\* returns VersionMismatch, execute returns MaxRetriesExceeded carrying the
\* command's stream id and config.max_retries, after exactly max_retries + 1
\* publish attempts, and the engine has appended nothing.
C1_BudgetExhaustion ==
    \A e \in Procs :
        /\ (pc[e] = "done" /\ calls[e].read >= 1
                /\ calls[e].mismatch = calls[e].read)
              => result[e].kind = "MaxRetriesExceeded"
        /\ result[e].kind = "MaxRetriesExceeded"
              => /\ result[e] = MaxRetriesExceeded(cmd[e].id, max_retries[e])
                 /\ calls[e].publish = max_retries[e] + 1
                 /\ calls[e].mismatch = calls[e].publish
                 /\ AppendedNothing(e)

\* C1 witness: a budget of two retries is exhausted after three mismatches
C1_Witness ==
    \E e \in Procs :
        /\ result[e].kind = "MaxRetriesExceeded"
        /\ max_retries[e] = 2
        /\ calls[e].mismatch = 3

\* C2: on every attempt, the state handle() observes equals the fold of the
\* command's empty_state over exactly the events read in that attempt, in
\* stream order.
C2_HandleSeesFoldOfAttempt ==
    \A e \in Procs :
        calls[e].handle >= 1
            => decided[e].state = Fold(EmptyState, EventsOf(decided[e].events))

\* C3: whenever an append made by execute succeeds, the state handle() decided
\* on equals the fold of empty_state over the full stream as it stood just
\* before the append, and no other writer changed the stream between that
\* attempt's read and its publish (else the publish had returned
\* VersionMismatch).
C3_AppendOnCurrentState ==
    \A e \in Procs :
        before[e].appended
            => /\ decided[e].state = Fold(EmptyState, EventsOf(before[e].recs))
               /\ EventsOf(decided[e].events) = EventsOf(before[e].recs)

C5_EmptyHandleIsNoop ==
    \A e \in Procs :
        (calls[e].handle >= 1 /\ LastHandled(e) = HandleOk(<<>>))
            => /\ pc[e] = "done"
               /\ result[e] = OkUnit
               /\ calls[e].publish = calls[e].handle - 1
               /\ calls[e].publish = calls[e].mismatch
               /\ AppendedNothing(e)

\* C5 witness: a no-op command against a seeded stream has returned Ok
C5_Witness ==
    \E e \in Procs :
        /\ cmd[e].kind = "Noop" /\ calls[e].handle = 1
        /\ result[e] = OkUnit
        /\ Len(streams[cmd[e].id]) = 2

\* C6 as stated: when handle() returns an error, the whole invocation has made
\* exactly one handle call and zero publish calls.
C6_OneHandleNoPublish ==
    \A e \in Procs :
        result[e].kind = "CommandFailed"
            => calls[e].handle = 1 /\ calls[e].publish = 0

\* C6 amended: when handle() returns an error on its n-th call, that call is
\* the last operation of execute: the invocation has made n handle calls and
\* n - 1 publish calls, each of which returned VersionMismatch, and the engine
\* has appended nothing; with n = 1 this is one handle call and no publish.
C6_HandleErrorEndsExecute ==
    \A e \in Procs :
        (calls[e].handle >= 1 /\ ~LastHandled(e).ok)
            => /\ pc[e] = "done"
               /\ result[e].kind = "CommandFailed"
               /\ calls[e].handle = retries[e] + 1
               /\ calls[e].publish = retries[e]
               /\ calls[e].mismatch = calls[e].publish
               /\ AppendedNothing(e)
               /\ (retries[e] = 0 => calls[e].handle = 1 /\ calls[e].publish = 0)

\* C6 witness: a rejection on the first attempt and one after a retry
C6_Witness ==
    \E e \in Procs :
        /\ result[e].kind = "CommandFailed"
        /\ calls[e].handle = 2 /\ calls[e].publish = 1

\* C7: when handle() returns error err, execute ends at once with
\* CommandFailed { message = err.to_string(), attempt = retries so far + 1,
\* max_attempts = config.max_retries }: no publish, sleep, mark_retry or read
\* follows, and attempt lies in 1..max_retries + 1.
C7_CommandFailedContext ==
    \A e \in Procs :
        /\ (calls[e].handle >= 1 /\ ~LastHandled(e).ok)
              => /\ pc[e] = "done"
                 /\ result[e].kind = "CommandFailed"
        /\ result[e].kind = "CommandFailed"
              => /\ ~LastHandled(e).ok
                 /\ result[e].message = to_string(LastHandled(e).err)
                 /\ result[e].source = LastHandled(e).err
                 /\ result[e].attempt = calls[e].mismatch + 1
                 /\ result[e].max = max_retries[e]
                 /\ result[e].attempt \in 1..(max_retries[e] + 1)
                 /\ calls[e].publish = calls[e].mismatch
                 /\ calls[e].mark_retry = calls[e].mismatch
                 /\ calls[e].read = calls[e].handle
                 /\ calls[e].handle = calls[e].mismatch + 1

\* C7 witness: a rejection on the attempt after the last allowed retry
C7_Witness ==
    \E e \in Procs :
        /\ result[e].kind = "CommandFailed"
        /\ max_retries[e] = 1
        /\ result[e].attempt = 2
        /\ result[e].message = "Command failed: exists"

\* C8: after a successful execute that appends k >= 1 events to a stream
\* whose tip was v at append time, the tip is v + k, the k events occupy
\* versions v+1..v+k in the order handle() returned them, and the earlier
\* events are unchanged; for a stream that did not exist they occupy 0..k-1.
C8_AppendedAtTipInOrder ==
    \A e \in Procs :
        before[e].appended
            => LET old == before[e].recs
                   now == streams[cmd[e].id]
                   events == LastHandled(e).events
                   k == Len(events)
               IN /\ k >= 1
                  /\ Len(now) = Len(old) + k
                  /\ SubSeq(now, 1, Len(old)) = old
                  /\ \A i \in 1..k :
                        /\ now[Len(old) + i].data = events[i]
                        /\ now[Len(old) + i].writer = e
                        /\ now[Len(old) + i].revision =
                              IF old = <<>> THEN i - 1
                              ELSE old[Len(old)].revision + i
                  /\ \A i \in 1..Len(now) : now[i].revision = i - 1

\* C8 witness: two events appended in order on top of a stream with tip 1
C8_Witness ==
    \E e \in Procs :
        /\ before[e].appended
        /\ Len(before[e].recs) = 2
        /\ LastHandled(e).events = <<1, 2>>
        /\ streams[cmd[e].id][3].revision = 2 /\ streams[cmd[e].id][3].data = 1
        /\ streams[cmd[e].id][4].revision = 3 /\ streams[cmd[e].id][4].data = 2

\* C9: the precondition passed to publish is Exact(v) if the command's
\* override_expected_version() is Some(v), whatever the read returned;
\* otherwise Exact(version of the last event read in this attempt) if an event
\* was read; otherwise no precondition.
C9_AppendPrecondition ==
    \A e \in Procs :
        (calls[e].handle >= 1 /\ LastHandled(e).ok /\ LastHandled(e).events # <<>>)
            => LET read == decided[e].events IN
               append_options[e] =
                     IF cmd[e].override.some
                     THEN [kind |-> "Exact", v |-> cmd[e].override.v]
                     ELSE IF read # <<>>
                     THEN [kind |-> "Exact", v |-> read[Len(read)].revision]
                     ELSE [kind |-> "Any", v |-> 0]

\* C9 witness: an override of Some(0) is passed on although the stream was
\* read up to version 1
C9_Witness ==
    \E e \in Procs :
        /\ pc[e] = "publish"
        /\ cmd[e].override = Some(0)
        /\ Len(decided[e].events) = 2
        /\ append_options[e] = Exact(0)

\* C10: a never-written stream is treated as empty however the store reports
\* it: execute never fails with the store's not-found error.
C10_NotFoundAbsorbed ==
    \A e \in Procs : result[e] # EventStoreOther("ResourceNotFound")

\* C11: when read_stream fails with an error other than stream-not-found,
\* execute returns that same error on that attempt: no handle and no publish
\* call is made in the attempt, no sleep and no retry follows, and the engine
\* has appended nothing.
C11_ReadErrorReturned ==
    \A e \in Procs :
        store_error[e].op = "read"
            => /\ pc[e] = "done"
               /\ result[e] = EventStoreOther(store_error[e].source)
               /\ calls[e].read = calls[e].mismatch + 1
               /\ calls[e].handle = calls[e].mismatch
               /\ calls[e].publish = calls[e].mismatch
               /\ calls[e].mark_retry = calls[e].mismatch
               /\ retries[e] = calls[e].mismatch
               /\ AppendedNothing(e)

\* C11 witness: the read of a second attempt fails with DeadlineExceeded
C11_Witness ==
    \E e \in Procs :
        /\ store_error[e] = [op |-> "read", source |-> "DeadlineExceeded"]
        /\ calls[e].read = 2
        /\ result[e] = EventStoreOther("DeadlineExceeded")

\* C12: only a VersionMismatch from publish causes a retry (sleep, mark_retry,
\* retries += 1); a publish failing with any other error ends execute with
\* that error at once, with no mark_retry and no further read, handle or
\* publish.
C12_OnlyMismatchRetries ==
    \A e \in Procs :
        /\ retries[e] = calls[e].mark_retry
        /\ calls[e].mismatch = calls[e].mark_retry + (IF pc[e] = "sleep" THEN 1 ELSE 0)
        /\ pc[e] = "sleep" => store_error[e] = NoStoreError
        /\ store_error[e].op = "publish"
              => /\ pc[e] = "done"
                 /\ result[e] = EventStoreOther(store_error[e].source)
                 /\ calls[e].publish = calls[e].mismatch + 1
                 /\ calls[e].read = calls[e].publish
                 /\ calls[e].handle = calls[e].publish
                 /\ calls[e].mark_retry = calls[e].mismatch
                 /\ AppendedNothing(e)

\* C12 witness: after one retry a publish fails with a transport error
C12_Witness ==
    \E e \in Procs :
        /\ store_error[e] = [op |-> "publish", source |-> "Grpc"]
        /\ calls[e].mismatch = 1
        /\ result[e] = EventStoreOther("Grpc")

\* C13: every execute call terminates, with Ok or an Error, after at most
\* max_retries + 1 attempts: reads, handle calls and publishes are each at
\* most max_retries + 1, provided each store operation and sleep returns.
C13_Terminates ==
    /\ [](\A e \in Procs :
            /\ calls[e].read <= max_retries[e] + 1
            /\ calls[e].handle <= max_retries[e] + 1
            /\ calls[e].publish <= max_retries[e] + 1
            /\ pc[e] = "done" <=> result[e] # Pending)
    /\ \A e \in Procs : (pc[e] # "idle") ~> (pc[e] = "done")

\* C13 witness: execute succeeds on its last permitted attempt
C13_Witness ==
    \E e \in Procs :
        /\ pc[e] = "done"
        /\ result[e] = OkUnit
        /\ max_retries[e] = 2
        /\ calls[e].publish = 3

\* C14: for every RetryDelay(base_delay_ms, max_delay_ms) and every retry
\* count r >= 0, calculate_delay(r) returns a duration d with
\* 0 <= d <= min(base_delay_ms * 2^r, max_delay_ms).
C14_DelayWithinBounds ==
    delay.outcome # NoDelay
        => /\ delay.outcome.tag = "returned"
           /\ 0 <= delay.outcome.ms
           /\ delay.outcome.ms
                 <= Min(delay.base_delay_ms * (2 ^ delay.retry_count),
                        delay.max_delay_ms)

\* C15: the ExecuteConfig builders validate their input: with_max_retries(0)
\* returns InvalidConfig with parameter "max_retries", with_base_delay(0)
\* returns InvalidConfig with parameter "base_retry_delay_ms", non-zero values
\* are accepted and stored; so every ExecuteConfig obtained from default()
\* through builder calls has max_retries >= 1 and base_delay_ms >= 1, and the
\* defaults are max_retries = 5, base 100 ms, max 30000 ms.
C15_ConfigValidated ==
    LET call == config.call IN
    /\ config.held
          => /\ config.value.max_retries >= 1
             /\ config.value.retry_delay.base_delay_ms >= 1
    /\ call.op = "default"
          => /\ config.held
             /\ config.value.max_retries = 5
             /\ config.value.retry_delay.base_delay_ms = 100
             /\ config.value.retry_delay.max_delay_ms = 30000
    /\ call.op = "with_max_retries"
          => IF call.arg = 0
             THEN /\ ~config.held
                  /\ ~call.result.ok
                  /\ call.result.err.kind = "InvalidConfig"
                  /\ call.result.err.parameter = "max_retries"
             ELSE /\ config.held
                  /\ config.value.max_retries = call.arg
    /\ call.op = "with_base_delay"
          => IF call.arg = 0
             THEN /\ ~config.held
                  /\ ~call.result.ok
                  /\ call.result.err.kind = "InvalidConfig"
                  /\ call.result.err.parameter = "base_retry_delay_ms"
             ELSE /\ config.held
                  /\ config.value.retry_delay.base_delay_ms = call.arg

\* C15 witness: with_base_delay(0) is refused on a configuration whose
\* max_retries an earlier builder call had set
C15_Witness ==
    /\ config.call.op = "with_base_delay"
    /\ config.call.arg = 0
    /\ ~config.held
    /\ config.call.result.value.max_retries = 3
    /\ config.call.result.err =
          InvalidConfig("base_retry_delay_ms cannot be 0", "base_retry_delay_ms")

C17_BuildRequiresPassword ==
    LET given == settings.given
        built == settings.built
    IN built # NotBuilt =>
        IF ~given.password.some
        THEN /\ built.tag = "Err"
             /\ built.err = InvalidConfig("password is required", "password")
        ELSE /\ built.tag = "Ok"
             /\ built.value.host = IF given.host.some THEN given.host.v ELSE "localhost"
             /\ built.value.port = IF given.port.some THEN given.port.v ELSE 2113
             /\ built.value.tls = IF given.tls.some THEN given.tls.v ELSE FALSE
             /\ built.value.username =
                   IF given.username.some THEN given.username.v ELSE "admin"
             /\ built.value.password = given.password.v

\* C17 witness: a build with a host and a password given and the other
\* fields left unset
C17_Witness ==
    /\ settings.built.tag = "Ok"
    /\ settings.given.host = Some("db.example")
    /\ ~settings.given.port.some
    /\ ~settings.given.username.some
    /\ settings.built.value =
          [host |-> "db.example", port |-> 2113, tls |-> FALSE,
           username |-> "admin", password |-> "s3cret"]

\* C18: the Debug output of ConnectionSettings does not depend on the
\* password: settings that differ only in their password produce identical
\* Debug text, which shows "<redacted>" in place of the password.
C18_DebugHidesPassword ==
    settings.debug.taken
        => /\ settings.debug.text = settings.debug.other_text
           /\ settings.debug.text[6] = <<"password", "<redacted>">>

\* C18 witness: the Debug text of settings whose passwords differ
C18_Witness ==
    /\ settings.debug.taken
    /\ settings.built.value.password = "changeit"
    /\ settings.debug.other.password = "s3cret"
    /\ settings.debug.other.host = settings.built.value.host

(* ------------------------------------------------------------------ *)
(* The first engine's error handling                                  *)
(* ------------------------------------------------------------------ *)

\* how many times handle_error has answered Some(context)
Recoveries ==
    Cardinality({i \in 1..Len(legacy.returned) : legacy.returned[i].some})

\* what handle produces in an iteration over the store as execute found it
ProducedOver(stored) ==
    legacy_handle(legacy.command,
                  IF legacy_event_stream_id(legacy.command).some
                  THEN fold(StatefulDefault, stored)
                  ELSE StatefulDefault).events

\* C19: in the first engine, when publish fails and handle_error answers
\* None, execute is over: it returns the storage error of that publish,
\* converted to the command's error type, the store holds what it held when
\* execute was called, and nothing was run again after the answer. With the
\* default handle_error this is after exactly one state rebuild, one handle
\* call and one publish call.
C19_NoneSurfacesError ==
    (legacy.returned # <<>> /\ ~legacy.returned[Len(legacy.returned)].some) =>
        /\ legacy.pc = "done"
        /\ legacy.error \in {ExecutionErrorFrom(e) : e \in StorageErrors}
        /\ legacy.result = LegacyErr(legacy.error)
        /\ legacy.events = legacy.initial
        /\ legacy.calls.build_state = Len(legacy.returned)
        /\ legacy.calls.handle = Len(legacy.returned)
        /\ legacy.calls.publish = Len(legacy.returned)
        /\ legacy.calls.handle_error = Len(legacy.returned)
        /\ legacy.command.policy = "Default" => Len(legacy.returned) = 1

\* C19 witness: a command with the default handle_error that produced two
\* events for a store already holding one, whose only publish failed
C19_Witness ==
    /\ legacy.command = [kind |-> "EventProducing", policy |-> "Default"]
    /\ legacy.pc = "done"
    /\ legacy.result = LegacyErr(ExecutionErrorFrom("Other"))
    /\ Len(legacy.produced) = 2
    /\ Len(legacy.initial) = 1
    /\ legacy.events = legacy.initial
    /\ legacy.calls = [build_state |-> 1, read_stream |-> 0, handle |-> 1,
                       publish |-> 1, handle_error |-> 1]

\* C20: in the first engine, a Some(context) answer of handle_error starts
\* a new iteration (state rebuilt, handle, publish), every iteration before
\* it having run whole; each handle_error call after the first is handed the
\* context the call before it returned; execute returns Ok at the first
\* publish that succeeds, and the store then holds what it held when execute
\* was called followed by the events of that one iteration.
C20_RecoveryIterates ==
    /\ Len(legacy.passed) = legacy.calls.handle_error
    /\ \A i \in 2..Len(legacy.passed) :
          /\ legacy.returned[i - 1].some
          /\ legacy.passed[i] = legacy.returned[i - 1]
    /\ legacy.pc = "build_state" =>
          /\ legacy.calls.build_state = Recoveries
          /\ legacy.calls.handle = Recoveries
          /\ legacy.calls.publish = Recoveries
          /\ legacy.calls.handle_error = Recoveries
          /\ Recoveries > 0 => legacy.failure_context
                                  = legacy.returned[Len(legacy.returned)]
    /\ legacy.pc \in {"handle", "publish", "handle_error"} =>
          /\ legacy.calls.build_state = Recoveries + 1
          /\ legacy.result = LegacyPending
    /\ legacy.calls.publish > legacy.failed <=> legacy.result = LegacyOk
    /\ legacy.result = LegacyOk =>
          /\ legacy.pc = "done"
          /\ legacy.calls.build_state = Recoveries + 1
          /\ legacy.calls.handle = Recoveries + 1
          /\ legacy.calls.publish = Recoveries + 1
          /\ legacy.calls.handle_error = Recoveries
          /\ legacy.failed = Recoveries
          /\ legacy.events
                = legacy.initial
                    \o Envelopes(legacy.initial, ProducedOver(legacy.initial))

\* C20 witness: a recovering command whose first two publishes failed and
\* whose third succeeded, the second handle_error call having been handed
\* the context the first returned
C20_Witness ==
    /\ legacy.command = [kind |-> "Stateful", policy |-> "Recovering"]
    /\ legacy.result = LegacyOk
    /\ legacy.calls.publish = 3
    /\ legacy.passed = <<None, Some(1)>>
    /\ legacy.returned = <<Some(1), Some(2)>>
    /\ Len(legacy.initial) = 2
    /\ Len(legacy.events) = 3

\* C21: calculate_delay computes base_delay_ms * 2^r saturating at the top
\* of the word: for every base and every retry count, those whose product
\* or whose power of two leaves the word included, the call returns, and
\* the delay before jitter is min(saturated product, max_delay_ms).
C21_SaturatingProduct ==
    delay.outcome # NoDelay =>
        LET saturated == Min(delay.base_delay_ms * (2 ^ delay.retry_count),
                             WordModulus - 1)
        IN /\ delay.outcome.tag = "returned"
           /\ capped_delay(delay.base_delay_ms, delay.max_delay_ms,
                           delay.retry_count)
                 = Min(saturated, delay.max_delay_ms)

\* C22: within one execute the i-th backoff sleep (i >= 1) has a duration
\* calculate_delay(i - 1) returned: the delay is computed from the retry
\* counter before its increment; and the sleep comes after the i-th failed
\* publish and before the i-th mark_retry and the (i + 1)-th read.
C22_BackoffSequence ==
    \A e \in Procs :
        /\ backoff[e].sleeping <=> pc[e] = "sleep"
        /\ backoff[e].sleeping =>
              LET i == calls[e].mismatch IN
              /\ i >= 1
              /\ backoff[e].retry_count = i - 1
              /\ backoff[e].ms \in
                    0..capped_delay(EngineRetryDelay.base_delay_ms,
                                    EngineRetryDelay.max_delay_ms, i - 1)
              /\ retries[e] = i - 1
              /\ calls[e].publish = i
              /\ calls[e].mark_retry = i - 1
              /\ calls[e].read = i

\* C22 witness: the second sleep of an execute, of the longest duration
\* calculate_delay(1) can return
C22_Witness ==
    \E e \in Procs :
        /\ pc[e] = "sleep"
        /\ calls[e].mismatch = 2
        /\ backoff[e] = [sleeping |-> TRUE, retry_count |-> 1, ms |-> 2]

\* The control state of execute for engine e, in the terms of the design:
\* Reading (the budget check of a first attempt, read_stream and the draws),
\* Deciding (handle), Appending (publish), Backoff (the sleep, mark_retry,
\* the increment and the budget check that follows), Done with Ok or Err.
Phase(e) ==
    CASE pc[e] = "idle" -> "Idle"
      [] pc[e] = "loop" -> IF retries[e] = 0 THEN "Reading" ELSE "Backoff"
      [] pc[e] \in {"read_stream", "next"} -> "Reading"
      [] pc[e] = "handle" -> "Deciding"
      [] pc[e] = "publish" -> "Appending"
      [] pc[e] = "sleep" -> "Backoff"
      [] pc[e] = "done" -> IF result[e] = OkUnit THEN "DoneOk" ELSE "DoneErr"
      [] pc[e] = "cancelled" -> "Cancelled"

\* C23: the control state of execute changes only along Reading->Deciding,
\* Reading->Done(Err), Deciding->Appending, Deciding->Done(Ok),
\* Deciding->Done(Err), Appending->Done(Ok), Appending->Backoff,
\* Appending->Done(Err), Backoff->Reading and Backoff->Done(Err); so in each
\* attempt the read ends before handle, handle before publish, publish
\* before the backoff and the backoff before the next read, and nothing
\* leaves Done.
C23_ControlTransitions ==
    [][\A e \in Procs :
          Phase(e)' # Phase(e) =>
              <<Phase(e), Phase(e)'>> \in
                  {<<"Reading", "Deciding">>, <<"Reading", "DoneErr">>,
                   <<"Deciding", "Appending">>, <<"Deciding", "DoneOk">>,
                   <<"Deciding", "DoneErr">>, <<"Appending", "DoneOk">>,
                   <<"Appending", "Backoff">>, <<"Appending", "DoneErr">>,
                   <<"Backoff", "Reading">>, <<"Backoff", "DoneErr">>}]_vars

\* C23 witness: an engine drawing events in its third attempt, two backoffs
\* behind it
C23_Witness ==
    \E e \in Procs :
        /\ Phase(e) = "Reading"
        /\ pc[e] = "next"
        /\ retries[e] = 2
        /\ calls[e].handle = 2

\* C24: if a draw from the stream during the read phase fails, to
\* deserialize or in transport, execute returns that error at once: handle
\* and publish are not called in that attempt, nothing is retried, and the
\* engine has written nothing to the store.
C24_DrawErrorReturned ==
    \A e \in Procs :
        store_error[e].op = "next" =>
            /\ pc[e] = "done"
            /\ result[e] \in {EventDeserializationError,
                              EventStoreOther(store_error[e].source)}
            /\ result[e].source = store_error[e].source
            /\ calls[e].read = retries[e] + 1
            /\ calls[e].handle = retries[e]
            /\ calls[e].publish = retries[e]
            /\ calls[e].mark_retry = retries[e]
            /\ backoff[e] = NoBackoff
            /\ AppendedNothing(e)

\* C24 witness: a draw that fails to deserialize after one event was drawn
\* and folded
C24_Witness ==
    \E e \in Procs :
        /\ store_error[e] = [op |-> "next", source |-> "json"]
        /\ result[e] = EventDeserializationError
        /\ Len(seen[e]) = 1
        /\ calls[e].handle = 0

\* C25: the jitter draws of threads running concurrently are not
\* synchronized: when one thread has obtained a delay for a retry count and
\* another thread, under the same configuration, is about to make its first
\* call with the same retry count, that thread can obtain a different delay;
\* so the same sequence of retry counts does not force the same sequence of
\* delays.
C25_JitterNotSynchronized ==
    \A t \in Threads, u \in Threads :
        (t # u /\ ~jitter[t].created /\ jitter[u].created) =>
            ENABLED (/\ ThreadCalculateDelay(t)
                     /\ jitter'[t].counts = <<jitter[u].counts[1]>>
                     /\ jitter'[t].delays # <<jitter[u].delays[1]>>)

\* the positions of stream `id` that hold a record written by engine e
WrittenIn(e, id) == {i \in DOMAIN streams[id] : streams[id][i].writer = e}

\* C26: in every reachable state, the states left by a cancellation at an
\* .await included, what one execute has added to the store is either
\* nothing or the complete list of events returned by one call of handle(),
\* in one stream, contiguous and in order; an execute never appends more
\* than one batch.
C26_WholeBatchOrNothing ==
    \A e \in Procs :
        \/ Written(e) = {}
        \/ \E id \in AllStreamIds :
              LET at == WrittenIn(e, id)
                  lo == CHOOSE i \in at : \A j \in at : i <= j
                  events == LastHandled(e).events
              IN /\ Written(e) = {<<id, i>> : i \in at}
                 /\ calls[e].handle >= 1
                 /\ events # <<>>
                 /\ events = domain_events[e]
                 /\ at = lo..(lo + Len(events) - 1)
                 /\ \A k \in 1..Len(events) :
                       streams[id][lo + k - 1].data = events[k]

\* C26 witness: an execute cancelled while its publish was in flight, the
\* two events of its batch stored on top of one earlier event
C26_Witness ==
    \E e \in Procs :
        /\ pc[e] = "cancelled"
        /\ result[e] = Pending
        /\ WrittenIn(e, cmd[e].id) = {2, 3}
        /\ domain_events[e] = <<1, 2>>

\* C27: throughout one execute the stream id is the same: the id given to
\* publish is the id given to read_stream in that attempt and in every
\* earlier attempt, mark_retry and apply notwithstanding, and it is the id
\* reported in MaxRetriesExceeded.
C27_StreamIdStable ==
    \A e \in Procs :
        /\ \A i \in DOMAIN ids[e], j \in DOMAIN ids[e] :
              ids[e][i].id = ids[e][j].id
        /\ (result[e].kind = "MaxRetriesExceeded" /\ ids[e] # <<>>) =>
              result[e].stream = ids[e][1].id

\* C28: when a SecureString created by SecureString::new is dropped, the
\* bytes of the string it held are zeroed: the secret no longer stands in
\* the buffer it occupied.
C28_ZeroedOnDrop ==
    secure.original.dropped =>
        \A i \in DOMAIN secure.original.inner : secure.original.inner[i] = 0

\* C29: in the first engine an error of rebuilding the state (read_stream)
\* or of handle() is returned at once, with no publish and without asking
\* handle_error; handle_error is offered the errors of publish only, and an
\* Err it returns itself ends execute with that error.
C29_OnlyPublishErrorsHandled ==
    /\ (legacy.pc = "done" /\ legacy.calls.build_state > legacy.calls.handle) =>
          /\ legacy.result \in {LegacyErr(ExecutionErrorFrom(e)) : e \in StorageErrors}
          /\ legacy.calls.read_stream = legacy.calls.build_state
          /\ legacy.calls.handle = legacy.calls.build_state - 1
          /\ legacy.calls.publish = legacy.calls.build_state - 1
          /\ legacy.calls.handle_error = legacy.calls.build_state - 1
    /\ (legacy.pc = "done" /\ legacy.calls.handle > legacy.calls.publish) =>
          /\ legacy.result = LegacyErr(legacy_handle(legacy.command, legacy.state).err)
          /\ legacy.result = LegacyErr(Rejected)
          /\ legacy.calls.publish = legacy.calls.handle - 1
          /\ legacy.calls.handle_error = legacy.calls.handle - 1
    /\ legacy.calls.handle_error <= legacy.failed
    /\ legacy.pc # "handle_error" => legacy.calls.handle_error = legacy.failed
    /\ legacy.calls.handle_error > 0 =>
          legacy.error \in {ExecutionErrorFrom(e) : e \in StorageErrors}
    /\ Len(legacy.passed) > Len(legacy.returned) =>
          LET answer == handle_error(legacy.command, legacy.error,
                                     legacy.passed[Len(legacy.passed)])
          IN /\ ~answer.ok
             /\ legacy.pc = "done"
             /\ legacy.result = LegacyErr(answer.err)
             /\ legacy.events = legacy.initial

\* C29 witness: a recovering command whose first publish failed and whose
\* second rebuild of the state failed at read_stream
C29_Witness ==
    /\ legacy.command = [kind |-> "Stateful", policy |-> "Recovering"]
    /\ legacy.pc = "done"
    /\ legacy.result = LegacyErr(ExecutionErrorFrom("Other"))
    /\ legacy.calls = [build_state |-> 2, read_stream |-> 2, handle |-> 1,
                       publish |-> 1, handle_error |-> 1]

\* C30: in the first engine build_state returns (default state, no expected
\* version) without reading the store when the command's event_stream_id()
\* is None; otherwise it folds apply_event from the default state over every
\* envelope of the stream, in order, and returns the version of the last
\* envelope (None for an empty stream); that state is what handle receives
\* and that version what publish receives in the iteration.
C30_BuildState ==
    LET stored == IF legacy.result = LegacyOk THEN legacy.initial ELSE legacy.events
        n == Len(stored)
        folded[i \in 0..n] ==
            IF i = 0 THEN StatefulDefault
            ELSE apply_event(folded[i - 1], stored[i].event)
        built == legacy.pc \in {"handle", "publish", "handle_error"}
                    \/ legacy.result = LegacyOk
    IN /\ ~legacy_event_stream_id(legacy.command).some =>
             /\ legacy.calls.read_stream = 0
             /\ built => /\ legacy.state = StatefulDefault
                         /\ legacy.expected_version = None
       /\ legacy_event_stream_id(legacy.command).some =>
             /\ legacy.calls.read_stream = legacy.calls.build_state
             /\ built => /\ legacy.state = folded[n]
                         /\ legacy.expected_version =
                               IF n = 0 THEN None
                               ELSE Some(stored[n].stream_version)
       /\ (built /\ legacy.pc # "handle") =>
             legacy.received.state = legacy.state
       /\ (legacy.pc = "handle_error" \/ legacy.result = LegacyOk) =>
             legacy.received.expected_version = legacy.expected_version

\* C30 witness: the stateful command published BazHappened computed from the
\* state folded over FooHappened(123), BarHappened(124), with expected
\* version 1
C30_Witness ==
    /\ legacy.command.kind = "Stateful"
    /\ legacy.result = LegacyOk
    /\ legacy.initial = Preloaded(<<FooHappened(123), BarHappened(124)>>)
    /\ legacy.received = [state |-> 124, expected_version |-> Some(1)]
    /\ legacy.produced = <<BazHappened(123, 248)>>

\* C31: mark_retry is invoked exactly once for each VersionMismatch that
\* publish returned and never otherwise, after the backoff sleep and before
\* the next read: the number of mark_retry calls equals the retry counter at
\* every point, it lags the number of mismatches by one exactly while the
\* sleep is in progress, a step that calls mark_retry is the step that ends a
\* sleep, a step that calls read_stream finds every mismatch marked, and
\* mark_retry has been called max_retries + 1 times when MaxRetriesExceeded
\* is returned.
C31_MarkRetryPerMismatch ==
    /\ [](\A e \in Procs :
            /\ calls[e].mark_retry = retries[e]
            /\ calls[e].mark_retry =
                  calls[e].mismatch - (IF pc[e] = "sleep" THEN 1 ELSE 0)
            /\ backoff[e].sleeping <=> pc[e] = "sleep"
            /\ result[e].kind = "MaxRetriesExceeded"
                  => calls[e].mark_retry = max_retries[e] + 1)
    /\ [][\A e \in Procs :
            /\ calls'[e].mark_retry \in {calls[e].mark_retry, calls[e].mark_retry + 1}
            /\ calls'[e].mark_retry # calls[e].mark_retry
                  => /\ pc[e] = "sleep" /\ backoff[e].sleeping
                     /\ pc'[e] = "loop" /\ ~backoff'[e].sleeping
                     /\ calls'[e].read = calls[e].read
            /\ calls'[e].read # calls[e].read
                  => /\ calls[e].mark_retry = calls[e].mismatch
                     /\ calls[e].read = calls[e].mark_retry]_vars

\* C31 witness: a budget of two retries is used up, mark_retry having been
\* called after each of the three sleeps
C31_Witness ==
    \E e \in Procs :
        /\ result[e].kind = "MaxRetriesExceeded"
        /\ max_retries[e] = 2
        /\ calls[e].mark_retry = 3
        /\ calls[e].read = 3

\* C32: in every state of one execute call 0 <= retries <= max_retries + 1;
\* the counter only ever grows by one, and only at the end of the sleep that
\* follows a VersionMismatch; read_stream, handle and publish are invoked only
\* while retries <= max_retries, and each at most once per value of the
\* counter (the k-th call of each is made with the counter at k - 1).
C32_RetryCounterBounds ==
    /\ [](\A e \in Procs :
            /\ 0 <= retries[e] /\ retries[e] <= max_retries[e] + 1
            /\ calls[e].read <= retries[e] + 1
            /\ calls[e].handle <= retries[e] + 1
            /\ calls[e].publish <= retries[e] + 1)
    /\ [][\A e \in Procs :
            /\ retries'[e] \in {retries[e], retries[e] + 1}
            /\ retries'[e] # retries[e]
                  => /\ pc[e] = "sleep"
                     /\ calls[e].mismatch = retries[e] + 1
                     /\ calls'[e] = [calls[e] EXCEPT !.sleep = @ + 1,
                                                     !.mark_retry = @ + 1]
            /\ \A op \in {"read", "handle", "publish"} :
                  calls'[e][op] # calls[e][op]
                      => /\ calls'[e][op] = calls[e][op] + 1
                         /\ retries[e] <= max_retries[e]
                         /\ calls[e][op] = retries[e]
                         /\ retries'[e] = retries[e]]_vars

\* C32 witness: the counter stands at max_retries + 1 = 3 at the head of the
\* loop, each operation having been invoked once per earlier value
C32_Witness ==
    \E e \in Procs :
        /\ pc[e] = "loop"
        /\ max_retries[e] = 2
        /\ retries[e] = max_retries[e] + 1
        /\ calls[e].read = 3 /\ calls[e].handle = 3 /\ calls[e].publish = 3

\* the precondition that follows from the events drawn in the current attempt
\* alone: Exact(version of the last one), none if no event was drawn
FromThisAttempt(e) ==
    IF seen[e] = <<>> THEN None ELSE Some(seen[e][Len(seen[e])].revision)

\* C33: the expected version is reset to None at the start of every attempt:
\* while an attempt reads, decides and publishes, expected_version is the
\* version of the last event drawn in that same attempt (None if it drew
\* none), and the publish of a command without a version override carries
\* exactly that precondition; after a retry in which the stream is read as
\* absent or empty the publish carries no precondition, even though an
\* earlier attempt had read events.
C33_ExpectedVersionPerAttempt ==
    \A e \in Procs :
        /\ pc[e] \in {"read_stream", "next", "handle", "publish"}
              => expected_version[e] = FromThisAttempt(e)
        /\ (pc[e] = "publish" /\ ~cmd[e].override.some)
              => /\ append_options[e] = AppendOptions(None, FromThisAttempt(e))
                 /\ seen[e] = <<>> => append_options[e] = AnyRevision

\* C33 witness: an attempt read events and its publish was refused; the
\* retry found the stream absent and publishes without precondition
C33_Witness ==
    \E e \in Procs :
        /\ pc[e] = "publish" /\ ~cmd[e].override.some
        /\ calls[e].mismatch >= 1
        /\ seen[e] = <<>>
        /\ append_options[e] = AnyRevision

\* C34: execute never returns a VersionMismatch that publish produced: the
\* step in which publish answers VersionMismatch returns nothing and enters
\* the backoff sleep, and what execute returns is never that error; once the
\* budget is used up the result is MaxRetriesExceeded, made of the stream id
\* and max_retries alone, the same whatever versions were expected and found.
C34_MismatchNeverReturned ==
    /\ [](\A e \in Procs :
            /\ result[e].kind # "EventStoreVersionMismatch"
            /\ (pc[e] = "done" /\ calls[e].mismatch > max_retries[e])
                  => result[e] = MaxRetriesExceeded(cmd[e].id, max_retries[e])
            /\ (pc[e] = "done" /\ result[e].kind # "MaxRetriesExceeded")
                  => calls[e].mismatch <= max_retries[e])
    /\ [][\A e \in Procs :
            calls'[e].mismatch # calls[e].mismatch
                => /\ pc[e] = "publish" /\ pc'[e] = "sleep"
                   /\ result'[e] = Pending]_vars

\* C34 witness: a command overriding the expected version with one the stream
\* never has, under a budget of one retry: two mismatches, both retried, and
\* MaxRetriesExceeded returned
C34_Witness ==
    \E e \in Procs :
        /\ result[e] = MaxRetriesExceeded(cmd[e].id, 1)
        /\ cmd[e].override.some
        /\ calls[e].mismatch = 2
        /\ TipVersion(streams[cmd[e].id]) # cmd[e].override

\* engine e decided on a stream it read as absent or empty, and its command
\* (without version override) produced events
DecidedOnEmpty(e) ==
    /\ calls[e].handle >= 1
    /\ ~cmd[e].override.some
    /\ decided[e].events = <<>>
    /\ LastHandled(e).ok /\ LastHandled(e).events # <<>>

\* the records of engine e are exactly its batch, at consecutive positions
BatchStored(e, id) ==
    \E first \in 1..Len(streams[id]) :
        /\ WrittenIn(e, id) = first..(first + Len(LastHandled(e).events) - 1)
        /\ [i \in 1..Len(LastHandled(e).events) |-> streams[id][first + i - 1].data]
              = LastHandled(e).events

\* C35: if two execute calls (no version override) both read the same stream
\* as absent or empty and both produce events, both publishes are issued
\* with no precondition; neither receives a VersionMismatch nor retries; each
\* publish the store carries out succeeds, and once both have returned Ok
\* the stream holds both batches and nothing else.
C35_BothAppendUnconditionally ==
    \A e1, e2 \in Procs :
        (e1 # e2 /\ cmd[e1].id = cmd[e2].id
                 /\ DecidedOnEmpty(e1) /\ DecidedOnEmpty(e2))
            => /\ \A e \in {e1, e2} :
                    /\ pc[e] \in {"publish", "done"}
                    /\ append_options[e] = AnyRevision
                    /\ calls[e].mismatch = 0 /\ retries[e] = 0
                    /\ calls[e].mark_retry = 0 /\ calls[e].read = 1
                    /\ pc[e] = "done"
                          => \/ result[e] = OkUnit /\ BatchStored(e, cmd[e].id)
                             \/ /\ store_error[e].op = "publish"
                                /\ result[e] = EventStoreOther(store_error[e].source)
               /\ (result[e1] = OkUnit /\ result[e2] = OkUnit)
                    => Len(streams[cmd[e1].id]) =
                          Len(LastHandled(e1).events) + Len(LastHandled(e2).events)

\* C35 witness: both engines read the never-written stream, both published
\* and returned Ok, and the stream holds the two batches one after the other
C35_Witness ==
    \E e1, e2 \in Procs :
        /\ e1 # e2 /\ cmd[e1].id = cmd[e2].id
        /\ DecidedOnEmpty(e1) /\ DecidedOnEmpty(e2)
        /\ result[e1] = OkUnit /\ result[e2] = OkUnit
        /\ cmd[e1].kind = "EventProducing"
        /\ Len(streams[cmd[e1].id]) = 2 + Len(LastHandled(e2).events)
        /\ WrittenIn(e2, cmd[e2].id) = {1} \/ WrittenIn(e2, cmd[e2].id) = {1, 2}

\* every engine executes an event-producing command without version
\* override on stream `id`, which existed before any of them started
AllOnExisting(id) ==
    /\ streams[id] # <<>> /\ streams[id][1].writer = "seed"
    /\ \A e \in Procs :
          /\ cmd[e] \in ConcurrentCommands /\ cmd[e].id = id
          /\ max_retries[e] >= Cardinality(Procs) - 1

\* C36: when N engines each execute one event-producing command (no version
\* override) on the same already-existing stream, with no other writer and
\* max_retries >= N - 1, each engine receives at most N - 1 VersionMismatches
\* and none returns MaxRetriesExceeded; an engine the store does not fail
\* returns Ok, and when all have returned Ok the stream is the original
\* events followed by the N batches, each contiguous.
C36_ContendingEnginesAllSucceed ==
    \A id \in StreamIds :
        AllOnExisting(id)
            => /\ \A e \in Procs :
                    /\ calls[e].mismatch <= Cardinality(Procs) - 1
                    /\ result[e].kind # "MaxRetriesExceeded"
                    /\ pc[e] = "done"
                          => \/ result[e] = OkUnit /\ BatchStored(e, id)
                             \/ /\ store_error[e].op # "none"
                                /\ result[e].kind \in {"EventStoreOther",
                                                       "EventDeserializationError"}
               /\ (\A e \in Procs : result[e] = OkUnit)
                    => /\ \A i \in DOMAIN streams[id] :
                            streams[id][i].writer \in {"seed"} \cup Procs
                       /\ \A i, j \in DOMAIN streams[id] :
                            (i < j /\ streams[id][j].writer = "seed")
                                => streams[id][i].writer = "seed"
                       /\ \A i \in DOMAIN streams[id] :
                            streams[id][i].revision = i - 1

\* C36 witness: two engines on a stream of two events; one of them was
\* refused once, retried, and both returned Ok with their batches behind the
\* original events
C36_Witness ==
    /\ AllOnExisting("A")
    /\ \A e \in Procs : result[e] = OkUnit /\ BatchStored(e, "A")
    /\ \E e \in Procs : calls[e].mismatch = 1 /\ max_retries[e] = 1
    /\ streams["A"][2].writer = "seed"
    /\ Len(streams["A"]) >= 4

\* C37: when the retry budget is exhausted the engine has slept exactly
\* max_retries + 1 times, once after every failed publish, the last one
\* included, before it returns MaxRetriesExceeded; after the last of these
\* sleeps it makes no read, handle or publish: its next and only step is the
\* return.
C37_SleepsBeforeGivingUp ==
    /\ [](\A e \in Procs :
            result[e].kind = "MaxRetriesExceeded"
                => /\ calls[e].sleep = max_retries[e] + 1
                   /\ calls[e].sleep = calls[e].mismatch
                   /\ calls[e].publish = calls[e].mismatch
                   /\ ~backoff[e].sleeping)
    /\ [][\A e \in Procs :
            /\ calls'[e].sleep # calls[e].sleep
                  => /\ calls'[e].sleep = calls[e].sleep + 1
                     /\ calls[e].mismatch = calls'[e].sleep
                     /\ backoff[e].sleeping
            /\ calls[e].sleep = max_retries[e] + 1
                  => /\ calls'[e] = calls[e]
                     /\ pc'[e] # pc[e]
                          => /\ pc'[e] = "done"
                             /\ result'[e].kind = "MaxRetriesExceeded"]_vars

\* C37 witness: under a budget of one retry the second publish is refused as
\* well; the engine sleeps a second time and then reports the exhausted
\* budget, two reads, two handle calls and two publishes behind it
C37_Witness ==
    \E e \in Procs :
        /\ result[e].kind = "MaxRetriesExceeded"
        /\ max_retries[e] = 1
        /\ calls[e].sleep = 2
        /\ calls[e].read = 2 /\ calls[e].handle = 2 /\ calls[e].publish = 2

\* C38: in the in-memory event store of the first engine's tests
\* (EventStoreImpl), after any sequence of successful publishes the versions
\* of the stored envelopes are 0, 1, ..., n - 1 in order: no gap and no
\* duplicate.
C38_VersionsContiguous ==
    legacy.pc = "store"
        => \A i \in DOMAIN legacy.events : legacy.events[i].stream_version = i - 1

====
